---- MODULE Spec2Model ----
(***************************************************************************)
(* Google IP range monitor: the prefix extractor, the snapshot differ      *)
(* (monitor.py, generate_report.py), the history aggregator                *)
(* (services/aggregator_service.py), the firewall rule generator           *)
(* (generate_firewall_rules.py) and the chart pipeline                     *)
(* (services/chart_api_gateway.py and the services it calls).              *)
(*                                                                         *)
(* JSON values are named by their JSON token; a string token is written    *)
(* without its quotes ("10.0.0.0/24"), "5" is the number 5 and "[]" is an  *)
(* empty list.  A Python dict with optional keys is a record that holds    *)
(* Absent under a key the dict lacks.                                      *)
(***************************************************************************)
EXTENDS Integers, Sequences, FiniteSets, TLC

VARIABLES op, oldData, newData, result, dataDir, cache, now, days, useCache,
          log, ipv4, ipv6, exports, configCache, settings, executionLog

vars == <<op, oldData, newData, result, dataDir, cache, now, days, useCache,
          log, ipv4, ipv6, exports, configCache, settings, executionLog>>

(* ------------------------------ bounds --------------------------------- *)

\* prefix entries in the inputs of one extractor or differ call, all together
MaxEntries == 3

(* ------------------------------ strings -------------------------------- *)

Absent == "<absent>"

V4Strings == {"10.0.0.0/24", "10.0.1.0/24"}

V6Strings == {"2001:db8::/32"}

CidrStrings == V4Strings \cup V6Strings

NonStrings == {"5", "[]"}

\* an address written without its prefix length
BareStrings == {"10.0.0.0"}

\* the code points of each token's characters
Codes ==
  [s \in CidrStrings \cup NonStrings \cup BareStrings |->
     CASE s = "10.0.0.0/24"   -> <<49, 48, 46, 48, 46, 48, 46, 48, 47, 50, 52>>
       [] s = "10.0.0.0"      -> <<49, 48, 46, 48, 46, 48, 46, 48>>
       [] s = "10.0.1.0/24"   -> <<49, 48, 46, 48, 46, 49, 46, 48, 47, 50, 52>>
       [] s = "2001:db8::/32" -> <<50, 48, 48, 49, 58, 100, 98, 56, 58, 58, 47, 51, 50>>
       [] s = "5"             -> <<53>>
       [] s = "[]"            -> <<91, 93>>]

Colon == 58

\* isinstance(v, str)
IsStr(v) == v \in CidrStrings \cup BareStrings

\* a Python list is unhashable, a str or an int is hashable
Hashable(v) == v # "[]"

\* ':' in ip
has_colon(ip) == \E i \in DOMAIN Codes[ip] : Codes[ip][i] = Colon

RECURSIVE seq_lt(_, _)
\* Python's str.__lt__: code point by code point, a proper prefix is smaller
seq_lt(a, b) ==
  IF b = <<>> THEN FALSE
  ELSE IF a = <<>> THEN TRUE
  ELSE IF Head(a) # Head(b) THEN Head(a) < Head(b)
  ELSE seq_lt(Tail(a), Tail(b))

str_lt(a, b) == seq_lt(Codes[a], Codes[b])

\* a faulty sorted: descending order
RECURSIVE sorted_desc(_)
sorted_desc(S) ==
  IF S = {} THEN <<>>
  ELSE LET m == CHOOSE x \in S : \A y \in S \ {x} : str_lt(y, x)
       IN  <<m>> \o sorted_desc(S \ {m})

RECURSIVE sorted(_)
\* sorted(list(S)) of a set of strings
sorted(S) ==
  IF S = {} THEN <<>>
  ELSE LET m == CHOOSE x \in S : \A y \in S \ {x} : str_lt(x, y)
       IN  <<m>> \o sorted(S \ {m})

(* ----------------------------- snapshots ------------------------------- *)

\* a prefix entry: 'ipv4Prefix' / 'ipv6Prefix' are optional keys
Entries == [ipv4Prefix : V4Strings \cup {Absent}, ipv6Prefix : V6Strings \cup {Absent}]

\* entries whose prefix values may be any JSON value, not only a string
RawEntries ==
  [ipv4Prefix : V4Strings \cup NonStrings \cup {Absent},
   ipv6Prefix : V6Strings \cup {"5"} \cup {Absent}]

\* a provider sub-document that is null (fetch_ip_data stores None on failure)
NullDoc == [kind |-> "null", ptag |-> "absent", prefixes |-> <<>>]

\* a sub-document without a 'prefixes' key
NoPrefixesDoc == [kind |-> "dict", ptag |-> "absent", prefixes |-> <<>>]

ListDoc(p) == [kind |-> "dict", ptag |-> "list", prefixes |-> p]

\* the sub-documents holding exactly n entries drawn from E
DocsOfSize(E, n) ==
  {ListDoc(p) : p \in [1..n -> E]} \cup (IF n = 0 THEN {NullDoc, NoPrefixesDoc} ELSE {})

\* fetch_ip_data always sets both keys, so a snapshot is a two-key dict
Snap(c, g) == [kind |-> "dict", cloud |-> c, goog |-> g]

\* load_data's None when no file exists
NoneData == [kind |-> "null", cloud |-> NullDoc, goog |-> NullDoc]

SnapshotsOfSize(E, n) ==
  UNION {{Snap(c, g) : c \in DocsOfSize(E, k), g \in DocsOfSize(E, n - k)} : k \in 0..n}

\* bool(x) of a dict-or-None value
Truthy(x) == x.kind # "null"

(* --------------------------- extract_prefixes -------------------------- *)

NoErr == "none"

\* prefixes.add(v)
set_add(acc, v) ==
  IF acc.err # NoErr THEN acc
  ELSE IF Hashable(v) THEN [acc EXCEPT !.val = @ \cup {v}]
  ELSE [acc EXCEPT !.err = "TypeError"]

RECURSIVE add_entries(_, _)
\* the body of one "for prefix_entry in ..." loop
add_entries(entries, acc) ==
  IF acc.err # NoErr \/ entries = <<>> THEN acc
  ELSE LET e  == Head(entries)
           a1 == IF e.ipv4Prefix # Absent THEN set_add(acc, e.ipv4Prefix) ELSE acc
           a2 == IF e.ipv6Prefix # Absent THEN set_add(a1, e.ipv6Prefix) ELSE a1
       IN  add_entries(Tail(entries), a2)

\* one "if data.get(name): for ... in data[name].get('prefixes', [])" block
add_doc(doc, acc) ==
  IF acc.err # NoErr \/ ~Truthy(doc) THEN acc
  ELSE IF doc.kind # "dict" THEN [acc EXCEPT !.err = "AttributeError"]
  ELSE IF doc.ptag = "absent" THEN acc
  ELSE IF doc.ptag # "list" THEN [acc EXCEPT !.err = "TypeError"]
  ELSE add_entries(doc.prefixes, acc)

\* a faulty extract_prefixes: the 'goog' block is missing
extract_cloud_only(data) ==
  IF data.kind # "dict" THEN [err |-> "AttributeError", val |-> {}]
  ELSE add_doc(data.cloud, [err |-> NoErr, val |-> {}])

\* DataAggregatorService.extract_prefixes
extract_prefixes(data) ==
  IF data.kind # "dict" THEN [err |-> "AttributeError", val |-> {}]
  ELSE add_doc(data.goog, add_doc(data.cloud, [err |-> NoErr, val |-> {}]))

\* GoogleIPMonitor.extract_prefixes
monitor_extract_prefixes(data) ==
  IF data.kind # "dict" THEN [err |-> "AttributeError", val |-> {}]
  ELSE add_doc(data.goog, add_doc(data.cloud, [err |-> NoErr, val |-> {}]))

\* extract_prefixes of generate_html_report
report_extract_prefixes(data) ==
  IF ~Truthy(data) THEN [err |-> NoErr, val |-> {}]
  ELSE add_doc(data.goog, add_doc(data.cloud, [err |-> NoErr, val |-> {}]))

(* ----------------------------- compare_data ---------------------------- *)

NoCache == [absent |-> TRUE]

Raised(e) == [error |-> e]

\* a faulty compare_data: the two differences exchanged
compare_data_swapped(old_data, new_data) ==
  IF ~Truthy(old_data) \/ ~Truthy(new_data)
  THEN [added |-> <<>>, removed |-> <<>>, total_current |-> 0, has_changes |-> FALSE]
  ELSE LET old_prefixes == monitor_extract_prefixes(old_data).val
           new_prefixes == monitor_extract_prefixes(new_data).val
       IN  [added |-> sorted(old_prefixes \ new_prefixes),
            removed |-> sorted(new_prefixes \ old_prefixes),
            total_current |-> Cardinality(new_prefixes),
            total_previous |-> Cardinality(old_prefixes),
            has_changes |-> new_prefixes # old_prefixes]

\* a faulty compare_data: total_previous counts the removed prefixes
compare_data_stale_count(old_data, new_data) ==
  IF ~Truthy(old_data) \/ ~Truthy(new_data)
  THEN [added |-> <<>>, removed |-> <<>>, total_current |-> 0, has_changes |-> FALSE]
  ELSE LET old_prefixes == monitor_extract_prefixes(old_data).val
           new_prefixes == monitor_extract_prefixes(new_data).val
       IN  [added |-> sorted(new_prefixes \ old_prefixes),
            removed |-> sorted(old_prefixes \ new_prefixes),
            total_current |-> Cardinality(new_prefixes),
            total_previous |-> Cardinality(old_prefixes \ new_prefixes),
            has_changes |-> new_prefixes # old_prefixes]

\* GoogleIPMonitor.compare_data; the inputs hold string prefixes only
compare_data(old_data, new_data) ==
  IF ~Truthy(old_data) \/ ~Truthy(new_data)
  THEN [added |-> <<>>, removed |-> <<>>, total_current |-> 0, has_changes |-> FALSE]
  ELSE LET old   == monitor_extract_prefixes(old_data)
           new   == monitor_extract_prefixes(new_data)
           old_prefixes == old.val
           new_prefixes == new.val
           added   == new_prefixes \ old_prefixes
           removed == old_prefixes \ new_prefixes
       IN  IF old.err # NoErr THEN Raised(old.err)
           ELSE IF new.err # NoErr THEN Raised(new.err)
           ELSE [added |-> sorted(added),
                 removed |-> sorted(removed),
                 total_current |-> Cardinality(new_prefixes),
                 total_previous |-> Cardinality(old_prefixes),
                 has_changes |-> Cardinality(added) > 0 \/ Cardinality(removed) > 0]

\* generate_html_report: the added / removed lists of the two loaded files
report_diff(yesterday_data, today_data) ==
  LET today     == report_extract_prefixes(today_data)
      yesterday == report_extract_prefixes(yesterday_data)
  IN  IF today.err # NoErr THEN Raised(today.err)
      ELSE IF yesterday.err # NoErr THEN Raised(yesterday.err)
      ELSE [added |-> sorted(today.val \ yesterday.val),
            removed |-> sorted(yesterday.val \ today.val)]

(* ------------------------- DataAggregatorService ----------------------- *)

\* dates are day numbers: the files are named YYYY-MM-DD.json, whose sorted
\* path order is the order of the days
MaxFiles == 3

Dates == 1..MaxFiles

\* the largest window a caller passes
MaxDays == 3

\* None where a date is expected
NullDate == 0

NoFile == [kind |-> "nofile", cloud |-> NullDoc, goog |-> NullDoc]

\* a file json.load cannot parse
Garbage == [kind |-> "garbage", cloud |-> NullDoc, goog |-> NullDoc]

RECURSIVE ascending(_)
\* sorted() of a set of day numbers
ascending(S) ==
  IF S = {} THEN <<>>
  ELSE LET m == CHOOSE x \in S : \A y \in S : x <= y
       IN  <<m>> \o ascending(S \ {m})

\* sorted(glob(os.path.join(self.data_dir, '*.json')))
data_files(dir) == ascending({d \in DOMAIN dir : dir[d].kind # "nofile"})

\* Python's seq[-n:] for any integer n
py_last(seq, n) ==
  LET len   == Len(seq)
      start == IF -n < 0 THEN (IF len - n > 0 THEN len - n ELSE 0)
               ELSE (IF -n < len THEN -n ELSE len)
  IN  SubSeq(seq, start + 1, len)

\* Python's seq[:n] for n >= 0
py_first(seq, n) == SubSeq(seq, 1, IF n < Len(seq) THEN n ELSE Len(seq))

\* comparison[key], KeyError when the dict lacks the key
HasKeys(comparison, keys) == keys \subseteq DOMAIN comparison

\* a faulty format_report: the statistics are printed in both branches
format_report_always_statistics(comparison, today, yesterday) ==
  IF ~HasKeys(comparison, {"has_changes", "added", "removed",
                           "total_previous", "total_current"})
  THEN Raised("KeyError")
  ELSE [date |-> today, changes |-> comparison.has_changes,
        added |-> py_first(comparison.added, 10),
        removed |-> py_first(comparison.removed, 10),
        previous |-> comparison.total_previous,
        current |-> comparison.total_current,
        net_change |-> comparison.total_current - comparison.total_previous]

\* GoogleIPMonitor.format_report: what the report shows, KeyError when it
\* reads a key the comparison lacks
format_report(comparison, today, yesterday) ==
  IF ~HasKeys(comparison, {"has_changes"}) THEN Raised("KeyError")
  ELSE IF ~comparison.has_changes
  THEN IF ~HasKeys(comparison, {"total_current"}) THEN Raised("KeyError")
       ELSE [date |-> today, changes |-> FALSE, current |-> comparison.total_current]
  ELSE IF ~HasKeys(comparison, {"added", "removed", "total_previous", "total_current"})
  THEN Raised("KeyError")
  ELSE [date |-> today, changes |-> TRUE,
        added |-> py_first(comparison.added, 10),
        added_more |-> IF Len(comparison.added) > 10 THEN Len(comparison.added) - 10 ELSE 0,
        removed |-> py_first(comparison.removed, 10),
        removed_more |->
          IF Len(comparison.removed) > 10 THEN Len(comparison.removed) - 10 ELSE 0,
        previous |-> comparison.total_previous,
        current |-> comparison.total_current,
        net_change |-> comparison.total_current - comparison.total_previous]

\* a faulty window: data_files[:days], the oldest files
window_first(files, n) == IF Len(files) > n THEN py_first(files, n) ELSE files

\* data_files[-days:] if len(data_files) > days else data_files
window(files, n) == IF Len(files) > n THEN py_last(files, n) ELSE files

RECURSIVE load_files(_, _)
\* the try / except loop over the windowed files: a file that does not parse
\* is skipped
load_files(dir, files) ==
  IF files = <<>> THEN <<>>
  ELSE LET d == Head(files)
       IN  (IF dir[d].kind = "garbage" THEN <<>> ELSE <<[date |-> d, data |-> dir[d]]>>)
             \o load_files(dir, Tail(files))

\* DataAggregatorService.load_historical_data
load_historical_data(dir, n) ==
  IF data_files(dir) = <<>> THEN <<>>
  ELSE load_files(dir, window(data_files(dir), n))

\* a faulty separate_ipv4_ipv6: every prefix is counted as IPv4
separate_all_ipv4(prefixes) ==
  [ipv4 |-> sorted(prefixes),
   ipv6 |-> sorted({ip \in prefixes : has_colon(ip)})]

\* DataAggregatorService.separate_ipv4_ipv6
separate_ipv4_ipv6(prefixes) ==
  [ipv4 |-> sorted({ip \in prefixes : ~has_colon(ip)}),
   ipv6 |-> sorted({ip \in prefixes : has_colon(ip)})]

\* a quotient a / b, kept as the pair
Ratio(a, b) == [num |-> a, den |-> b]

Zero == Ratio(0, 1)

RECURSIVE sum(_)
sum(seq) == IF seq = <<>> THEN 0 ELSE Head(seq) + sum(Tail(seq))

Last(seq) == seq[Len(seq)]

Metadata(clock) ==
  [generated_at |-> clock, service |-> "DataAggregatorService", version |-> "1.1.0"]

\* a faulty _get_empty_metrics: one data point reported
get_empty_metrics_one_point(clock) ==
  [timestamps |-> <<>>, total_ranges |-> <<>>, ipv4_counts |-> <<>>,
   ipv6_counts |-> <<>>, daily_added |-> <<>>, daily_removed |-> <<0>>,
   summary |-> [total_data_points |-> 1,
                date_range |-> [start |-> NullDate, end |-> NullDate],
                current_total |-> 0, current_ipv4 |-> 0, current_ipv6 |-> 0,
                total_growth |-> 0, avg_daily_change |-> Zero],
   metadata |-> Metadata(clock)]

\* DataAggregatorService._get_empty_metrics
get_empty_metrics(clock) ==
  [timestamps |-> <<>>, total_ranges |-> <<>>, ipv4_counts |-> <<>>,
   ipv6_counts |-> <<>>, daily_added |-> <<>>, daily_removed |-> <<>>,
   summary |-> [total_data_points |-> 0,
                date_range |-> [start |-> NullDate, end |-> NullDate],
                current_total |-> 0, current_ipv4 |-> 0, current_ipv6 |-> 0,
                total_growth |-> 0, avg_daily_change |-> Zero],
   metadata |-> Metadata(clock)]

\* the lists and previous_prefixes = None before the loop
LoopStart ==
  [err |-> NoErr, timestamps |-> <<>>, total_ranges |-> <<>>, ipv4_counts |-> <<>>,
   ipv6_counts |-> <<>>, daily_added |-> <<>>, daily_removed |-> <<>>,
   has_previous |-> FALSE, previous_prefixes |-> {}]

\* a faulty loop body: previous_prefixes is set once and never replaced
loop_body_keeps_first(acc, entry) ==
  LET current  == extract_prefixes(entry.data)
      split    == separate_ipv4_ipv6(current.val)
      added    == current.val \ acc.previous_prefixes
      removed  == acc.previous_prefixes \ current.val
  IN  IF current.err # NoErr THEN [acc EXCEPT !.err = current.err]
      ELSE [err |-> NoErr,
            timestamps |-> Append(acc.timestamps, entry.date),
            total_ranges |-> Append(acc.total_ranges, Cardinality(current.val)),
            ipv4_counts |-> Append(acc.ipv4_counts, Len(split.ipv4)),
            ipv6_counts |-> Append(acc.ipv6_counts, Len(split.ipv6)),
            daily_added |->
              Append(acc.daily_added, IF acc.has_previous THEN Cardinality(added) ELSE 0),
            daily_removed |->
              Append(acc.daily_removed, IF acc.has_previous THEN Cardinality(removed) ELSE 0),
            has_previous |-> TRUE,
            previous_prefixes |->
              IF acc.has_previous THEN acc.previous_prefixes ELSE current.val]

\* a faulty loop body: the first point gets no entry in the two change lists
loop_body_no_first_change(acc, entry) ==
  LET current  == extract_prefixes(entry.data)
      split    == separate_ipv4_ipv6(current.val)
      added    == current.val \ acc.previous_prefixes
      removed  == acc.previous_prefixes \ current.val
  IN  IF current.err # NoErr THEN [acc EXCEPT !.err = current.err]
      ELSE [err |-> NoErr,
            timestamps |-> Append(acc.timestamps, entry.date),
            total_ranges |-> Append(acc.total_ranges, Cardinality(current.val)),
            ipv4_counts |-> Append(acc.ipv4_counts, Len(split.ipv4)),
            ipv6_counts |-> Append(acc.ipv6_counts, Len(split.ipv6)),
            daily_added |->
              IF acc.has_previous THEN Append(acc.daily_added, Cardinality(added))
              ELSE acc.daily_added,
            daily_removed |->
              IF acc.has_previous THEN Append(acc.daily_removed, Cardinality(removed))
              ELSE acc.daily_removed,
            has_previous |-> TRUE,
            previous_prefixes |-> current.val]

\* a faulty loop body: the removed prefixes are counted against the current
\* set itself
loop_body_no_removals(acc, entry) ==
  LET current  == extract_prefixes(entry.data)
      split    == separate_ipv4_ipv6(current.val)
      added    == current.val \ acc.previous_prefixes
      removed  == current.val \ current.val
  IN  IF current.err # NoErr THEN [acc EXCEPT !.err = current.err]
      ELSE [err |-> NoErr,
            timestamps |-> Append(acc.timestamps, entry.date),
            total_ranges |-> Append(acc.total_ranges, Cardinality(current.val)),
            ipv4_counts |-> Append(acc.ipv4_counts, Len(split.ipv4)),
            ipv6_counts |-> Append(acc.ipv6_counts, Len(split.ipv6)),
            daily_added |->
              Append(acc.daily_added, IF acc.has_previous THEN Cardinality(added) ELSE 0),
            daily_removed |->
              Append(acc.daily_removed, IF acc.has_previous THEN Cardinality(removed) ELSE 0),
            has_previous |-> TRUE,
            previous_prefixes |-> current.val]

\* one pass of "for entry in historical_data"
loop_body(acc, entry) ==
  LET current  == extract_prefixes(entry.data)
      split    == separate_ipv4_ipv6(current.val)
      added    == current.val \ acc.previous_prefixes
      removed  == acc.previous_prefixes \ current.val
  IN  IF current.err # NoErr THEN [acc EXCEPT !.err = current.err]
      ELSE [err |-> NoErr,
            timestamps |-> Append(acc.timestamps, entry.date),
            total_ranges |-> Append(acc.total_ranges, Cardinality(current.val)),
            ipv4_counts |-> Append(acc.ipv4_counts, Len(split.ipv4)),
            ipv6_counts |-> Append(acc.ipv6_counts, Len(split.ipv6)),
            daily_added |->
              Append(acc.daily_added, IF acc.has_previous THEN Cardinality(added) ELSE 0),
            daily_removed |->
              Append(acc.daily_removed, IF acc.has_previous THEN Cardinality(removed) ELSE 0),
            has_previous |-> TRUE,
            previous_prefixes |-> current.val]

RECURSIVE loop(_, _)
loop(acc, historical_data) ==
  IF acc.err # NoErr \/ historical_data = <<>> THEN acc
  ELSE loop(loop_body(acc, Head(historical_data)), Tail(historical_data))

\* a faulty metrics dict: the average is taken over the changes after the
\* first point, and the growth against the point before the last
build_metrics_per_change(acc, clock) ==
  [timestamps |-> acc.timestamps,
   total_ranges |-> acc.total_ranges,
   ipv4_counts |-> acc.ipv4_counts,
   ipv6_counts |-> acc.ipv6_counts,
   daily_added |-> acc.daily_added,
   daily_removed |-> acc.daily_removed,
   summary |->
     [total_data_points |-> Len(acc.timestamps),
      date_range |->
        [start |-> IF acc.timestamps # <<>> THEN acc.timestamps[1] ELSE NullDate,
         end   |-> IF acc.timestamps # <<>> THEN Last(acc.timestamps) ELSE NullDate],
      current_total |-> IF acc.total_ranges # <<>> THEN Last(acc.total_ranges) ELSE 0,
      current_ipv4 |-> IF acc.ipv4_counts # <<>> THEN Last(acc.ipv4_counts) ELSE 0,
      current_ipv6 |-> IF acc.ipv6_counts # <<>> THEN Last(acc.ipv6_counts) ELSE 0,
      total_growth |->
        IF Len(acc.total_ranges) > 1
        THEN Last(acc.total_ranges) - acc.total_ranges[Len(acc.total_ranges) - 1]
        ELSE 0,
      avg_daily_change |->
        IF Len(acc.daily_added) > 1
        THEN Ratio(sum(acc.daily_added), Len(acc.daily_added) - 1)
        ELSE Zero],
   metadata |-> Metadata(clock)]

\* the metrics dict built after the loop
build_metrics(acc, clock) ==
  [timestamps |-> acc.timestamps,
   total_ranges |-> acc.total_ranges,
   ipv4_counts |-> acc.ipv4_counts,
   ipv6_counts |-> acc.ipv6_counts,
   daily_added |-> acc.daily_added,
   daily_removed |-> acc.daily_removed,
   summary |->
     [total_data_points |-> Len(acc.timestamps),
      date_range |->
        [start |-> IF acc.timestamps # <<>> THEN acc.timestamps[1] ELSE NullDate,
         end   |-> IF acc.timestamps # <<>> THEN Last(acc.timestamps) ELSE NullDate],
      current_total |-> IF acc.total_ranges # <<>> THEN Last(acc.total_ranges) ELSE 0,
      current_ipv4 |-> IF acc.ipv4_counts # <<>> THEN Last(acc.ipv4_counts) ELSE 0,
      current_ipv6 |-> IF acc.ipv6_counts # <<>> THEN Last(acc.ipv6_counts) ELSE 0,
      total_growth |->
        IF Len(acc.total_ranges) > 1 THEN Last(acc.total_ranges) - acc.total_ranges[1]
        ELSE 0,
      avg_daily_change |->
        IF acc.daily_added # <<>> THEN Ratio(sum(acc.daily_added), Len(acc.daily_added))
        ELSE Zero],
   metadata |-> Metadata(clock)]

\* a faulty aggregate_all_data: the date range ends at the day of the run
aggregate_all_data_until_today(dir, n, clock) ==
  LET historical_data == load_historical_data(dir, n)
      acc             == loop(LoopStart, historical_data)
      metrics         == build_metrics(acc, clock)
  IN  IF historical_data = <<>> THEN get_empty_metrics(clock)
      ELSE IF acc.err # NoErr THEN Raised(acc.err)
      ELSE [metrics EXCEPT !.summary.date_range.end = clock]

\* DataAggregatorService.aggregate_all_data
aggregate_all_data(dir, n, clock) ==
  LET historical_data == load_historical_data(dir, n)
      acc             == loop(LoopStart, historical_data)
  IN  IF historical_data = <<>> THEN get_empty_metrics(clock)
      ELSE IF acc.err # NoErr THEN Raised(acc.err)
      ELSE build_metrics(acc, clock)

\* whether a call has raised instead of returning
IsRaised(r) == "error" \in DOMAIN r

\* a cache file json.load cannot parse
GarbageCache == [garbage |-> TRUE]

\* DataAggregatorService.load_from_cache: the cache file holds what
\* save_to_cache dumped, or text that does not parse
load_from_cache(c, clock) ==
  IF c = NoCache THEN get_empty_metrics(clock)
  ELSE IF c = GarbageCache THEN get_empty_metrics(clock)
  ELSE c

\* a faulty run: a cache file that exists is returned whatever use_cache is
run_prefers_cache(dir, c, n, use_cache, clock) ==
  IF c # NoCache
  THEN [ret |-> load_from_cache(c, clock), cache |-> c]
  ELSE LET metrics == aggregate_all_data(dir, n, clock)
       IN  IF IsRaised(metrics) THEN [ret |-> metrics, cache |-> c]
           ELSE [ret |-> metrics, cache |-> metrics]

\* DataAggregatorService.run: what it returns and the cache file it leaves
run(dir, c, n, use_cache, clock) ==
  IF use_cache /\ c # NoCache
  THEN [ret |-> load_from_cache(c, clock), cache |-> c]
  ELSE LET metrics == aggregate_all_data(dir, n, clock)
       IN  IF IsRaised(metrics) THEN [ret |-> metrics, cache |-> c]
           ELSE [ret |-> metrics, cache |-> metrics]

(* ------------------------------- state --------------------------------- *)

NoResult == [none |-> TRUE]

\* the variables of the aggregator, at rest
AggIdle ==
  /\ dataDir = <<>>
  /\ cache = NoCache
  /\ now = 0
  /\ days = 0
  /\ useCache = FALSE
  /\ log = <<>>

\* the inputs of the rule generator, at rest
ProjIdle ==
  /\ ipv4 = <<>>
  /\ ipv6 = <<>>
  /\ exports = <<>>

\* the chart pipeline, at rest: no config cache, no gateway constructed
ChartsIdle ==
  /\ configCache = NoCache
  /\ settings = NoResult
  /\ executionLog = <<>>

Init ==
  /\ op = "none"
  /\ oldData = NoneData
  /\ newData = NoneData
  /\ result = NoResult
  /\ AggIdle
  /\ ProjIdle
  /\ ChartsIdle

\* Each behaviour of Spec is one call of a pure function on inputs drawn from
\* the bounded sets: op = "none" before the call, the function's name after.

\* one call of GoogleIPMonitor.extract_prefixes on a snapshot of at most
\* MaxEntries entries drawn from E
MonitorExtract(E) ==
  /\ op = "none"
  /\ \E n \in 0..MaxEntries : \E k \in 0..n :
      \E c \in DocsOfSize(E, k), g \in DocsOfSize(E, n - k) :
     /\ op' = "monitor_extract"
     /\ oldData' = NoneData
     /\ newData' = Snap(c, g)
     /\ result' = monitor_extract_prefixes(Snap(c, g))
     /\ UNCHANGED <<dataDir, cache, now, days, useCache, log, ipv4, ipv6,
                    exports, configCache, settings, executionLog>>

\* one call of DataAggregatorService.extract_prefixes
AggExtract(E) ==
  /\ op = "none"
  /\ \E n \in 0..MaxEntries : \E k \in 0..n :
      \E c \in DocsOfSize(E, k), g \in DocsOfSize(E, n - k) :
     /\ op' = "extract"
     /\ oldData' = NoneData
     /\ newData' = Snap(c, g)
     /\ result' = extract_prefixes(Snap(c, g))
     /\ UNCHANGED <<dataDir, cache, now, days, useCache, log, ipv4, ipv6,
                    exports, configCache, settings, executionLog>>

\* the pairs of inputs of one differ call
DiffInputs(n, m) ==
  (SnapshotsOfSize(Entries, n) \cup (IF n = 0 THEN {NoneData} ELSE {}))
    \X (SnapshotsOfSize(Entries, m) \cup (IF m = 0 THEN {NoneData} ELSE {}))

\* one call of GoogleIPMonitor.compare_data
Compare ==
  /\ op = "none"
  /\ \E n \in 0..MaxEntries : \E m \in 0..(MaxEntries - n) : \E io \in DiffInputs(n, m) :
     /\ op' = "compare"
     /\ oldData' = io[1]
     /\ newData' = io[2]
     /\ result' = compare_data(io[1], io[2])
     /\ UNCHANGED <<dataDir, cache, now, days, useCache, log, ipv4, ipv6,
                    exports, configCache, settings, executionLog>>

\* the diff generate_html_report makes of the two files it loaded
ReportDiff ==
  /\ op = "none"
  /\ \E n \in 0..MaxEntries : \E m \in 0..(MaxEntries - n) :
      \E y \in SnapshotsOfSize(Entries, n), t \in SnapshotsOfSize(Entries, m) :
     /\ op' = "report"
     /\ oldData' = y
     /\ newData' = t
     /\ result' = report_diff(y, t)
     /\ UNCHANGED <<dataDir, cache, now, days, useCache, log, ipv4, ipv6,
                    exports, configCache, settings, executionLog>>

Next ==
  \/ MonitorExtract(Entries)
  \/ AggExtract(Entries)
  \/ Compare
  \/ ReportDiff

Spec == Init /\ [][Next]_vars

(* ------------------------ the aggregator's runs ------------------------ *)

\* the snapshot whose entries carry the prefixes of S, one each
RECURSIVE entries_of(_)
entries_of(seq) ==
  IF seq = <<>> THEN <<>>
  ELSE <<[ipv4Prefix |-> IF has_colon(Head(seq)) THEN Absent ELSE Head(seq),
          ipv6Prefix |-> IF has_colon(Head(seq)) THEN Head(seq) ELSE Absent]>>
         \o entries_of(Tail(seq))

SnapOf(S) == Snap(ListDoc(entries_of(sorted(S))), NullDoc)

\* what one file of the data directory may hold: nothing, text that is not
\* JSON, the JSON document null, or a snapshot
FileContents == {NoFile, Garbage, NoneData} \cup {SnapOf(S) : S \in SUBSET CidrStrings}

AggInit ==
  /\ op = "none"
  /\ oldData = NoneData
  /\ newData = NoneData
  /\ result = NoResult
  /\ dataDir \in [Dates -> FileContents]
  /\ cache = NoCache
  /\ now = 0
  /\ days = 0
  /\ useCache = FALSE
  /\ log = <<>>
  /\ ProjIdle
  /\ ChartsIdle

\* one call of DataAggregatorService.run(days, use_cache)
Run ==
  /\ op = "none"
  /\ \E n \in (-1)..MaxDays, uc \in BOOLEAN :
       LET r == run(dataDir, cache, n, uc, now)
       IN  /\ op' = "run"
           /\ days' = n
           /\ useCache' = uc
           /\ result' = r.ret
           /\ cache' = r.cache
           /\ UNCHANGED <<oldData, newData, dataDir, now, log, ipv4, ipv6,
                          exports, configCache, settings, executionLog>>

AggNext == Run

SpecAgg == AggInit /\ [][AggNext]_vars

(* ---------------------- two runs and the cache ------------------------- *)

\* the largest reading of the clock
MaxClock == 1

\* what one file may hold in the histories of two successive runs
RunContents ==
  {NoFile, Garbage, NoneData, SnapOf({}), SnapOf({"10.0.0.0/24"})}

\* the service is constructed over a history; the cache file is missing or
\* does not parse
RunsInit ==
  /\ op = "none"
  /\ oldData = NoneData
  /\ newData = NoneData
  /\ result = NoResult
  /\ dataDir \in [Dates -> RunContents]
  /\ cache \in {NoCache, GarbageCache}
  /\ now = 0
  /\ days = 0
  /\ useCache = FALSE
  /\ log = <<>>
  /\ ProjIdle
  /\ ChartsIdle

\* the first and the second call of DataAggregatorService.run; log records
\* each call: its arguments, the clock, the cache file before it and what it
\* returned
Rerun ==
  /\ op \in {"none", "run"}
  /\ \E n \in (-1)..MaxDays, uc \in BOOLEAN :
       LET r == run(dataDir, cache, n, uc, now)
       IN  /\ op' = (IF op = "none" THEN "run" ELSE "rerun")
           /\ days' = n
           /\ useCache' = uc
           /\ result' = r.ret
           /\ cache' = r.cache
           /\ log' = Append(log, [days |-> n, use_cache |-> uc, at |-> now,
                                  cache_before |-> cache, ret |-> r.ret])
           /\ UNCHANGED <<oldData, newData, dataDir, now, ipv4, ipv6,
                          exports, configCache, settings, executionLog>>

\* time passes between the two calls
Tick ==
  /\ op = "run"
  /\ now < MaxClock
  /\ now' = now + 1
  /\ UNCHANGED <<op, oldData, newData, result, dataDir, cache, days, useCache,
                 log, ipv4, ipv6, exports, configCache, settings, executionLog>>

RunsNext ==
  \/ Rerun
  \/ Tick

SpecRuns == RunsInit /\ [][RunsNext]_vars

(* --------------------- malformed prefix values ------------------------- *)

\* the extractor on snapshots whose prefix fields may hold a number or a list
MalformedNext ==
  \/ MonitorExtract(RawEntries)
  \/ AggExtract(RawEntries)

SpecMalformed == Init /\ [][MalformedNext]_vars

(* --------------------------- the monitor's run ------------------------- *)

\* GoogleIPMonitor.save_data: the file of the date is written over
save_data(dir, data, date) == [dir EXCEPT ![date] = data]

\* GoogleIPMonitor.load_data: None when the file of the date does not exist
load_data(dir, date) == IF dir[date].kind = "nofile" THEN NoneData ELSE dir[date]

\* run returned before saving: both fetches failed
NotFetched == [failed |-> TRUE]

\* GoogleIPMonitor.run with the day of the clock and the data fetched: the
\* data directory it leaves and the comparison and report it makes;
\* 'yesterday' is computed as the same day as 'today'
monitor_run(dir, clock, current_data) ==
  LET today         == clock
      yesterday     == clock
      saved         == save_data(dir, current_data, today)
      previous_data == load_data(saved, yesterday)
      comparison    == compare_data(previous_data, current_data)
      report        == format_report(comparison, today, yesterday)
  IN  IF ~Truthy(current_data.cloud) /\ ~Truthy(current_data.goog)
      THEN [dir |-> dir, ret |-> NotFetched]
      ELSE IF IsRaised(comparison) THEN [dir |-> saved, ret |-> comparison]
      ELSE IF IsRaised(report) THEN [dir |-> saved, ret |-> report]
      ELSE [dir |-> saved, ret |-> [comparison |-> comparison, report |-> report]]

\* the runs of the monitor in one behaviour, at most
MaxRuns == 2

\* what fetch_ip_data may return: both fetches failed, or 'cloud' fetched
FetchedData == {Snap(NullDoc, NullDoc)} \cup {SnapOf(S) : S \in SUBSET CidrStrings}

\* the monitor is constructed over an empty data directory on day 1
MonitorInit ==
  /\ op = "none"
  /\ oldData = NoneData
  /\ newData = NoneData
  /\ result = NoResult
  /\ dataDir = [d \in Dates |-> NoFile]
  /\ cache = NoCache
  /\ now = 1
  /\ days = 0
  /\ useCache = FALSE
  /\ log = <<>>
  /\ ProjIdle
  /\ ChartsIdle

\* one call of GoogleIPMonitor.run; log records the day, the data fetched
\* and the data directory before the call
MonitorRun ==
  /\ Len(log) < MaxRuns
  /\ \E fetched \in FetchedData :
       LET r == monitor_run(dataDir, now, fetched)
       IN  /\ op' = "monitor_run"
           /\ newData' = fetched
           /\ dataDir' = r.dir
           /\ result' = r.ret
           /\ log' = Append(log, [today |-> now, fetched |-> fetched, before |-> dataDir])
           /\ UNCHANGED <<oldData, cache, now, days, useCache, ipv4, ipv6,
                          exports, configCache, settings, executionLog>>

\* the next day begins
DayPasses ==
  /\ now < MaxFiles
  /\ now' = now + 1
  /\ UNCHANGED <<op, oldData, newData, result, dataDir, cache, days, useCache,
                 log, ipv4, ipv6, exports, configCache, settings, executionLog>>

MonitorNext ==
  \/ MonitorRun
  \/ DayPasses

SpecMonitor == MonitorInit /\ [][MonitorNext]_vars

(* ----------------------- FirewallRulesGenerator ------------------------ *)

\* priority = 100 before the IPv4 loop
V4Priority == 100

\* priority = 2000 before the IPv6 loop
V6Priority == 2000

\* one element of "securityRules"; name is the f-string's fixed text and number
azure_rule(family, base, idx, ip) ==
  [name |-> [text |-> family, number |-> idx + 1],
   properties |->
     [protocol |-> "*",
      sourcePortRange |-> "*",
      destinationPortRange |-> "*",
      sourceAddressPrefix |-> ip,
      destinationAddressPrefix |-> "*",
      access |-> "Allow",
      priority |-> base + idx,
      direction |-> "Inbound"]]

\* FirewallRulesGenerator.generate_azure_nsg: the document json.dumps renders
generate_azure_nsg(ipv4_prefixes, ipv6_prefixes) ==
  [securityRules |->
     [i \in 1..Len(ipv4_prefixes) |->
        azure_rule("AllowGoogleIPv4_", V4Priority, i - 1, ipv4_prefixes[i])]
     \o [j \in 1..Len(ipv6_prefixes) |->
        azure_rule("AllowGoogleIPv6_", V6Priority, j - 1, ipv6_prefixes[j])]]

\* the longest IPv4 and IPv6 lists projected to Azure rules
MaxV4Rules == 1901

MaxV6Rules == 1

\* In the Azure projection a prefix is named by its rank among the sorted,
\* distinct CIDR strings of the snapshot, the IPv6 ranks after the IPv4 ones.
RankedV4(n) == [i \in 1..n |-> i]

RankedV6(n) == [j \in 1..n |-> MaxV4Rules + j]

\* one call of generate_azure_nsg on sorted lists without duplicates
AzureNsg ==
  /\ op = "none"
  /\ \E n4 \in 0..MaxV4Rules, n6 \in 0..MaxV6Rules :
       /\ op' = "azure"
       /\ ipv4' = RankedV4(n4)
       /\ ipv6' = RankedV6(n6)
       /\ result' = generate_azure_nsg(RankedV4(n4), RankedV6(n6))
       /\ UNCHANGED <<oldData, newData, dataDir, cache, now, days, useCache, log,
                      exports, configCache, settings, executionLog>>

SpecAzure == Init /\ [][AzureNsg]_vars

(* --------------------------- the Cisco ACL ----------------------------- *)

\* The tokens of the Cisco projection are sequences of code points.

Slash == 47

Dot == 46

RECURSIVE digits(_)
digits(n) == IF n < 10 THEN <<48 + n>> ELSE digits(n \div 10) \o <<48 + (n % 10)>>

\* Python's str() of an int
str_int(n) == IF n < 0 THEN <<45>> \o digits(-n) ELSE digits(n)

RECURSIVE decimal(_)
decimal(s) == IF s = <<>> THEN 0 ELSE 10 * decimal(SubSeq(s, 1, Len(s) - 1)) + (s[Len(s)] - 48)

\* Python's int() of a str without blanks or underscores: an optional sign
\* and decimal digits, ValueError otherwise
int_parse(s) ==
  LET signed == s # <<>> /\ s[1] \in {43, 45}
      body   == IF signed THEN Tail(s) ELSE s
  IN  IF body = <<>> \/ \E i \in DOMAIN body : body[i] \notin 48..57
      THEN [err |-> "ValueError", val |-> 0]
      ELSE [err |-> NoErr,
            val |-> IF signed /\ s[1] = 45 THEN -decimal(body) ELSE decimal(body)]

RECURSIVE split(_, _)
\* Python's s.split(sep) for a one-character sep
split(s, sep) ==
  IF \A i \in DOMAIN s : s[i] # sep THEN <<s>>
  ELSE LET i == CHOOSE k \in DOMAIN s : s[k] = sep /\ \A m \in 1..(k - 1) : s[m] # sep
       IN  <<SubSeq(s, 1, i - 1)>> \o split(SubSeq(s, i + 1, Len(s)), sep)

RECURSIVE join(_, _)
\* Python's sep.join(parts) for a one-character sep
join(parts, sep) ==
  IF parts = <<>> THEN <<>>
  ELSE IF Len(parts) = 1 THEN parts[1]
  ELSE parts[1] \o <<sep>> \o join(Tail(parts), sep)

\* 0xFFFFFFFF as its bits, bit 0 the least significant
AllOnes == [j \in 0..31 |-> 1]

\* x >> k for k >= 0
shr(x, k) == [j \in 0..31 |-> IF j + k <= 31 THEN x[j + k] ELSE 0]

\* x & 0xFF
low_byte(x) ==
  x[0] + 2 * x[1] + 4 * x[2] + 8 * x[3] + 16 * x[4] + 32 * x[5] + 64 * x[6] + 128 * x[7]

\* a faulty mask: the shift is by wildcard_bits
wildcard_shift_host_bits(prefix_int) ==
  LET wildcard_bits == 32 - prefix_int
      octet(i)      == low_byte(shr(shr(AllOnes, wildcard_bits), i * 8))
  IN  IF wildcard_bits < 0 THEN [err |-> "ValueError", val |-> <<>>]
      ELSE [err |-> NoErr,
            val |-> join(<<str_int(octet(3)), str_int(octet(2)),
                           str_int(octet(1)), str_int(octet(0))>>, Dot)]

\* the wildcard mask of one prefix length; a negative shift count raises
\* ValueError
wildcard(prefix_int) ==
  LET wildcard_bits == 32 - prefix_int
      shift         == 32 - wildcard_bits
      octet(i)      == low_byte(shr(shr(AllOnes, shift), i * 8))
  IN  IF shift < 0 THEN [err |-> "ValueError", val |-> <<>>]
      ELSE [err |-> NoErr,
            val |-> join(<<str_int(octet(3)), str_int(octet(2)),
                           str_int(octet(1)), str_int(octet(0))>>, Dot)]

\* one pass of "for ip in ipv4_prefixes": the line appended, or the error
\* raised
permit_line(ip) ==
  LET parts == split(ip, Slash)
  IN  IF Len(parts) # 2 THEN [err |-> "ValueError", val |-> <<>>]
      ELSE LET network == parts[1]
               prefix  == int_parse(parts[2])
               mask    == wildcard(prefix.val)
           IN  IF prefix.err # NoErr THEN [err |-> prefix.err, val |-> <<>>]
               ELSE IF mask.err # NoErr THEN [err |-> mask.err, val |-> <<>>]
               ELSE [err |-> NoErr,
                     val |-> <<[text |-> " permit ip {network} {wildcard} any",
                                network |-> network, wildcard |-> mask.val]>>]

RECURSIVE permit_lines(_)
\* the IPv4 loop: it stops at the first pass that raises
permit_lines(ipv4_prefixes) ==
  IF ipv4_prefixes = <<>> THEN [err |-> NoErr, val |-> <<>>]
  ELSE LET first == permit_line(Head(ipv4_prefixes))
           rest  == permit_lines(Tail(ipv4_prefixes))
       IN  IF first.err # NoErr THEN first
           ELSE IF rest.err # NoErr THEN rest
           ELSE [err |-> NoErr, val |-> first.val \o rest.val]

Line(t) == [text |-> t]

\* FirewallRulesGenerator.generate_cisco_acl: the lines that "\n".join puts
\* together
generate_cisco_acl(ipv4_prefixes, ipv6_prefixes, clock) ==
  LET permits == permit_lines(ipv4_prefixes)
  IN  IF permits.err # NoErr THEN Raised(permits.err)
      ELSE [lines |->
              <<Line("! Google IP Ranges - Cisco ACL"),
                [text |-> "! Generated: {now} UTC", now |-> clock],
                Line("!"),
                Line("ip access-list extended GOOGLE-IPS-V4")>>
              \o permits.val
              \o <<Line("!"), Line("ipv6 access-list GOOGLE-IPS-V6")>>
              \o [j \in 1..Len(ipv6_prefixes) |->
                    [text |-> " permit ipv6 {ip} any", ip |-> ipv6_prefixes[j]]]
              \o <<Line("!")>>]

\* the IPv4 prefixes of one Cisco projection, at most
MaxPrefixes == 2

\* the largest prefix length written in a token
MaxPrefixLen == 33

\* "10.0.0.0"
Net == <<49, 48, 46, 48, 46, 48, 46, 48>>

Cidr(p) == Net \o <<Slash>> \o str_int(p)

\* tokens that are not address/prefixlen: no slash, two slashes, a prefix
\* length that is not a number
BadTokens ==
  {Net, Net \o <<Slash, 50, Slash, 52>>, Net \o <<Slash, 120>>}

Tokens == {Cidr(p) : p \in (-1)..MaxPrefixLen} \cup BadTokens

\* one call of generate_cisco_acl on sorted lists without duplicates
CiscoAcl ==
  /\ op = "none"
  /\ \E n \in 0..MaxPrefixes : \E v4 \in [1..n -> Tokens] :
      \E v6 \in {<<>>, <<Codes["2001:db8::/32"]>>} :
       /\ \A i, j \in 1..n : i < j => seq_lt(v4[i], v4[j])
       /\ op' = "cisco"
       /\ ipv4' = v4
       /\ ipv6' = v6
       /\ result' = generate_cisco_acl(v4, v6, now)
       /\ UNCHANGED <<oldData, newData, dataDir, cache, now, days, useCache, log,
                      exports, configCache, settings, executionLog>>

SpecCisco == Init /\ [][CiscoAcl]_vars

(* ------------------------ the nine projections ------------------------- *)

\* the "# Generated: ..." line of a text projection
Generated(t, clock) == [text |-> t, now |-> clock]

\* one f-string line per prefix
PerPrefix(t, prefixes) == [i \in 1..Len(prefixes) |-> [text |-> t, ip |-> prefixes[i]]]

\* load_latest_data: the last of the sorted file names, None without files
load_latest_data(dir) ==
  IF data_files(dir) = <<>> THEN NoneData ELSE dir[Last(data_files(dir))]

\* the values one "for p in data[name].get('prefixes', [])" loop appends to
\* the list of the given key
appended(doc, key) ==
  IF ~Truthy(doc) THEN {}
  ELSE {doc.prefixes[i][key] : i \in DOMAIN doc.prefixes} \ {Absent}

\* FirewallRulesGenerator.extract_prefixes: one list per key, then
\* sorted(set(...)) of each
fw_extract_prefixes(data) ==
  [ipv4 |-> sorted(appended(data.cloud, "ipv4Prefix") \cup appended(data.goog, "ipv4Prefix")),
   ipv6 |-> sorted(appended(data.cloud, "ipv6Prefix") \cup appended(data.goog, "ipv6Prefix"))]

generate_iptables(ipv4_prefixes, ipv6_prefixes, clock) ==
  [lines |->
     <<Line("#!/bin/bash"), Line("# Google IP Ranges - iptables rules"),
       Generated("# Generated: {now} UTC", clock),
       Line("# Allow incoming traffic from Google IPs"), Line(""),
       Line("# IPv4 Rules")>>
     \o PerPrefix("iptables -A INPUT -s {ip} -j ACCEPT", ipv4_prefixes)
     \o <<Line(""), Line("# IPv6 Rules")>>
     \o PerPrefix("ip6tables -A INPUT -s {ip} -j ACCEPT", ipv6_prefixes)]

generate_aws_security_group(ipv4_prefixes, ipv6_prefixes) ==
  [Description |-> "Google IP Ranges Security Group",
   GroupName |-> "google-ip-ranges",
   IpPermissions |->
     [i \in 1..Len(ipv4_prefixes) |->
        [IpProtocol |-> "-1",
         IpRanges |-> <<[CidrIp |-> ipv4_prefixes[i],
                         Description |-> "Google IP Range"]>>]]
     \o [j \in 1..Len(ipv6_prefixes) |->
        [IpProtocol |-> "-1",
         Ipv6Ranges |-> <<[CidrIpv6 |-> ipv6_prefixes[j],
                           Description |-> "Google IPv6 Range"]>>]]]

generate_pfsense(ipv4_prefixes, ipv6_prefixes, clock) ==
  [lines |->
     <<Line("# Google IP Ranges - pfSense Alias"),
       Generated("# Generated: {now} UTC", clock),
       Line("# Import via Firewall > Aliases > Import"), Line(""),
       Line("# IPv4 Networks")>>
     \o PerPrefix("{ip}", ipv4_prefixes)
     \o <<Line(""), Line("# IPv6 Networks")>>
     \o PerPrefix("{ip}", ipv6_prefixes)]

generate_plain_text(ipv4_prefixes, ipv6_prefixes, clock) ==
  [lines |->
     <<Line("Google IP Ranges - Plain Text"),
       Generated("Generated: {now} UTC", clock),
       [text |-> "Total IPv4: {len}", len |-> Len(ipv4_prefixes)],
       [text |-> "Total IPv6: {len}", len |-> Len(ipv6_prefixes)],
       Line(""), Line("=== IPv4 Ranges ===")>>
     \o PerPrefix("{ip}", ipv4_prefixes)
     \o <<Line(""), Line("=== IPv6 Ranges ===")>>
     \o PerPrefix("{ip}", ipv6_prefixes)]

\* a faulty generate_csv: the IPv6 rows are written first
generate_csv_ipv6_first(ipv4_prefixes, ipv6_prefixes) ==
  [lines |->
     <<Line("type,prefix,description")>>
     \o PerPrefix("IPv6,{ip},Google IP Range", ipv6_prefixes)
     \o PerPrefix("IPv4,{ip},Google IP Range", ipv4_prefixes)]

generate_csv(ipv4_prefixes, ipv6_prefixes) ==
  [lines |->
     <<Line("type,prefix,description")>>
     \o PerPrefix("IPv4,{ip},Google IP Range", ipv4_prefixes)
     \o PerPrefix("IPv6,{ip},Google IP Range", ipv6_prefixes)]

generate_json_export(ipv4_prefixes, ipv6_prefixes, clock) ==
  [generated_at |-> clock,
   total_ranges |-> Len(ipv4_prefixes) + Len(ipv6_prefixes),
   ipv4 |-> [count |-> Len(ipv4_prefixes), ranges |-> ipv4_prefixes],
   ipv6 |-> [count |-> Len(ipv6_prefixes), ranges |-> ipv6_prefixes]]

generate_mikrotik(ipv4_prefixes, ipv6_prefixes, clock) ==
  [lines |->
     <<Line("# Google IP Ranges - MikroTik RouterOS"),
       Generated("# Generated: {now} UTC", clock), Line(""),
       Line("# Create address list"), Line("/ip firewall address-list")>>
     \o PerPrefix("add list=google-ips address={ip} comment=\"Google IPv4\"",
                  ipv4_prefixes)
     \o <<Line(""), Line("/ipv6 firewall address-list")>>
     \o PerPrefix("add list=google-ips-v6 address={ip} comment=\"Google IPv6\"",
                  ipv6_prefixes)]

\* generate_exports_index: the two counts the page shows
generate_exports_index(ipv4_prefixes, ipv6_prefixes, clock) ==
  [page |-> "index.html", ipv4_count |-> Len(ipv4_prefixes),
   ipv6_count |-> Len(ipv6_prefixes), now |-> clock]

\* the keys of the formats dict, in insertion order
formats ==
  <<"iptables.sh", "aws-security-group.json", "azure-nsg.json", "cisco-acl.txt",
    "pfsense-alias.txt", "mikrotik.rsc", "plain-text.txt", "export.csv",
    "export.json">>

\* the code points of each prefix of a list
tokens_of(prefixes) == [i \in 1..Len(prefixes) |-> Codes[prefixes[i]]]

\* formats[filename](ipv4_prefixes, ipv6_prefixes)
generator(filename, ipv4_prefixes, ipv6_prefixes, clock) ==
  CASE filename = "iptables.sh" -> generate_iptables(ipv4_prefixes, ipv6_prefixes, clock)
    [] filename = "aws-security-group.json" ->
         generate_aws_security_group(ipv4_prefixes, ipv6_prefixes)
    [] filename = "azure-nsg.json" -> generate_azure_nsg(ipv4_prefixes, ipv6_prefixes)
    [] filename = "cisco-acl.txt" ->
         generate_cisco_acl(tokens_of(ipv4_prefixes), tokens_of(ipv6_prefixes), clock)
    [] filename = "pfsense-alias.txt" -> generate_pfsense(ipv4_prefixes, ipv6_prefixes, clock)
    [] filename = "mikrotik.rsc" -> generate_mikrotik(ipv4_prefixes, ipv6_prefixes, clock)
    [] filename = "plain-text.txt" ->
         generate_plain_text(ipv4_prefixes, ipv6_prefixes, clock)
    [] filename = "export.csv" -> generate_csv(ipv4_prefixes, ipv6_prefixes)
    [] filename = "export.json" -> generate_json_export(ipv4_prefixes, ipv6_prefixes, clock)

\* a file the export directory does not hold
Missing == [missing |-> TRUE]

ExportFiles == {formats[i] : i \in DOMAIN formats} \cup {"index.html"}

RECURSIVE write_formats(_, _, _, _, _)
\* "for filename, generator in formats.items()": generate, then write; an
\* exception of a generator ends the loop
write_formats(names, dir, ipv4_prefixes, ipv6_prefixes, clock) ==
  IF names = <<>> THEN [exports |-> dir, ret |-> NoResult]
  ELSE LET output == generator(Head(names), ipv4_prefixes, ipv6_prefixes, clock)
       IN  IF IsRaised(output) THEN [exports |-> dir, ret |-> output]
           ELSE write_formats(Tail(names), [dir EXCEPT ![Head(names)] = output],
                              ipv4_prefixes, ipv6_prefixes, clock)

\* FirewallRulesGenerator.generate_all: the export directory afterwards and
\* None or the exception that ended the call
generate_all(data_dir, export_dir, clock) ==
  LET data    == load_latest_data(data_dir)
      lists   == fw_extract_prefixes(data)
      written == write_formats(formats, export_dir, lists.ipv4, lists.ipv6, clock)
  IN  IF ~Truthy(data) THEN [exports |-> export_dir, ret |-> NoResult]
      ELSE IF IsRaised(written.ret) THEN written
      ELSE [exports |-> [written.exports EXCEPT !["index.html"] =
                           generate_exports_index(lists.ipv4, lists.ipv6, clock)],
            ret |-> NoResult]

\* the snapshot files of one data directory, at most
MaxSnapshots == 2

\* prefix entries of fetched documents: an entry may carry a literal of the
\* other family or an address without prefix length under 'ipv4Prefix'
FwEntries ==
  {[ipv4Prefix |-> "10.0.0.0/24", ipv6Prefix |-> "2001:db8::/32"],
   [ipv4Prefix |-> "10.0.1.0/24", ipv6Prefix |-> Absent],
   [ipv4Prefix |-> "2001:db8::/32", ipv6Prefix |-> Absent],
   [ipv4Prefix |-> "10.0.0.0", ipv6Prefix |-> Absent]}

\* the entries of E in the order of their 'ipv4Prefix'
fw_entries_of(E) ==
  LET keys == sorted({e.ipv4Prefix : e \in E})
  IN  [i \in 1..Len(keys) |-> CHOOSE e \in E : e.ipv4Prefix = keys[i]]

\* the snapshots monitor.py saved: 'goog' repeats the first entry of 'cloud'
FwSnapshots ==
  {Snap(ListDoc(fw_entries_of(E)), ListDoc(py_first(fw_entries_of(E), 1))) :
     E \in SUBSET FwEntries}

FwInit ==
  /\ op = "none"
  /\ oldData = NoneData
  /\ newData = NoneData
  /\ result = NoResult
  /\ dataDir = [d \in 1..MaxSnapshots |-> NoFile]
  /\ cache = NoCache
  /\ now = 0
  /\ days = 0
  /\ useCache = FALSE
  /\ log = <<>>
  /\ ipv4 = <<>>
  /\ ipv6 = <<>>
  /\ exports = [f \in ExportFiles |-> Missing]
  /\ ChartsIdle

\* monitor.py saves the snapshot of the next day
SaveSnapshot ==
  /\ \E d \in 1..MaxSnapshots :
       /\ dataDir[d] = NoFile
       /\ \A e \in 1..(d - 1) : dataDir[e] # NoFile
       /\ \E data \in FwSnapshots : dataDir' = save_data(dataDir, data, d)
  /\ op' = "save_data"
  /\ UNCHANGED <<oldData, newData, result, cache, now, days, useCache, log,
                 ipv4, ipv6, exports, configCache, settings, executionLog>>

\* one call of generate_all
GenerateAll ==
  /\ op' = "generate_all"
  /\ ipv4' = fw_extract_prefixes(load_latest_data(dataDir)).ipv4
  /\ ipv6' = fw_extract_prefixes(load_latest_data(dataDir)).ipv6
  /\ exports' = generate_all(dataDir, exports, now).exports
  /\ result' = generate_all(dataDir, exports, now).ret
  /\ UNCHANGED <<oldData, newData, dataDir, cache, now, days, useCache, log,
                 configCache, settings, executionLog>>

FwNext == SaveSnapshot \/ GenerateAll

SpecFw == FwInit /\ [][FwNext]_vars

(* -------------------------- the chart pipeline ------------------------- *)

\* the Python dict {}
EmptyDict == <<>>

\* d.get(key, {})
dict_get(d, key) == IF key \in DOMAIN d THEN d[key] ELSE EmptyDict

\* [-30:] of the bar chart
BarDays == 30

\* the default of days_to_show
DaysToShow == 90

\* ChartConfigService.generate_all_configs: the data of the three charts
generate_all_configs(metrics, clock) ==
  [line_chart |->
     [type |-> "line", labels |-> metrics.timestamps,
      total_ranges |-> metrics.total_ranges,
      ipv4_counts |-> metrics.ipv4_counts,
      ipv6_counts |-> metrics.ipv6_counts],
   bar_chart |->
     [type |-> "bar", labels |-> py_last(metrics.timestamps, BarDays),
      added |-> py_last(metrics.daily_added, BarDays),
      removed |-> py_last(metrics.daily_removed, BarDays)],
   pie_chart |->
     [type |-> "doughnut",
      data |-> <<metrics.summary.current_ipv4, metrics.summary.current_ipv6>>,
      total |-> metrics.summary.current_ipv4 + metrics.summary.current_ipv6],
   metadata |-> [generated_at |-> clock, service |-> "ChartConfigService",
                 version |-> "1.1.0", theme |-> "chrome-dark"]]

\* ChartConfigService.load_from_cache: {} when the file is missing or does
\* not parse
config_load_from_cache(cc) ==
  IF cc = NoCache \/ cc = GarbageCache THEN EmptyDict ELSE cc

\* ChartConfigService.run: what it returns and the config cache it leaves
config_run(metrics, cc, use_cache, clock) ==
  IF use_cache /\ cc # NoCache
  THEN [ret |-> config_load_from_cache(cc), cache |-> cc]
  ELSE [ret |-> generate_all_configs(metrics, clock),
        cache |-> generate_all_configs(metrics, clock)]

\* a piece of HTML
Html(t) == [text |-> t]

\* ChartRendererService.run / render_all_charts: the section embeds the three
\* configs and the summary of the metrics
render_all_charts(configs, metrics) ==
  [cdn_script |-> Html("<script src=chart.js>"),
   charts_section |->
     [text |-> "<div class=charts-section>",
      start |-> metrics.summary.date_range.start,
      end |-> metrics.summary.date_range.end,
      total_points |-> metrics.summary.total_data_points,
      line_chart |-> dict_get(configs, "line_chart"),
      bar_chart |-> dict_get(configs, "bar_chart"),
      pie_chart |-> dict_get(configs, "pie_chart"),
      total_growth |-> metrics.summary.total_growth,
      avg_daily_change |-> metrics.summary.avg_daily_change,
      current_ipv4 |-> metrics.summary.current_ipv4,
      current_ipv6 |-> metrics.summary.current_ipv6],
   metadata |-> [service |-> "ChartRendererService", version |-> "1.1.0"]]

\* ChartExportService.export_to_csv: one row per timestamp
export_to_csv(metrics) ==
  [i \in 1..Len(metrics.timestamps) |->
     [date |-> metrics.timestamps[i],
      total_ranges |-> metrics.total_ranges[i],
      ipv4_count |-> metrics.ipv4_counts[i],
      ipv6_count |-> metrics.ipv6_counts[i],
      daily_added |-> metrics.daily_added[i],
      daily_removed |-> metrics.daily_removed[i],
      net_change |-> metrics.daily_added[i] - metrics.daily_removed[i]]]

\* ChartExportService.run / export_all: the paths it returns and the files
\* of exports/charts afterwards
export_all(metrics, clock) ==
  [ret |-> [csv |-> "exports/charts/historical_metrics.csv",
            json |-> "exports/charts/historical_metrics.json",
            markdown |-> "exports/charts/summary.md",
            index |-> "exports/charts/index.html"],
   files |-> [csv |-> export_to_csv(metrics),
              json |-> [data |-> [timestamps |-> metrics.timestamps,
                                  total_ranges |-> metrics.total_ranges,
                                  ipv4_counts |-> metrics.ipv4_counts,
                                  ipv6_counts |-> metrics.ipv6_counts,
                                  daily_added |-> metrics.daily_added,
                                  daily_removed |-> metrics.daily_removed],
                        summary |-> metrics.summary,
                        exported_at |-> clock],
              markdown |-> metrics.summary,
              index |-> [generated |-> clock]]]

\* the result of a disabled gateway
DisabledResult ==
  [enabled |-> FALSE, cdn_script |-> Html(""), charts_section |-> Html(""),
   exports |-> EmptyDict]

\* the result when the history holds no data point
NoDataResult ==
  [enabled |-> TRUE, has_data |-> FALSE, cdn_script |-> Html(""),
   charts_section |-> Html("<p>No historical data available yet.</p>"),
   exports |-> EmptyDict]

\* the graceful fallback of the outer except
fallback(e) ==
  [enabled |-> TRUE, has_data |-> FALSE, error |-> e, cdn_script |-> Html(""),
   charts_section |->
     [text |-> "<p>Chart generation temporarily unavailable. Error: {e}</p>",
      e |-> e],
   exports |-> EmptyDict]

\* a faulty check for data: the pipeline always goes on
has_data_always(metrics) == FALSE

\* metrics['summary']['total_data_points'] == 0
no_data(metrics) == metrics.summary.total_data_points = 0

\* _log_execution
log_execution(elog, service, status, clock) ==
  Append(elog, [timestamp |-> clock, service |-> service, status |-> status])

\* the four services and no failure; a call of the named service raises an
\* exception that the service does not handle itself
Faults == {"none", "aggregator", "config_service", "renderer", "exporter"}

\* what one call leaves behind: the result, the two cache files, the files
\* of exports/charts, the execution log, and the metrics and configs the
\* stages handed on
Outcome(ret, c, cc, files, elog, metrics, configs) ==
  [ret |-> ret, cache |-> c, configCache |-> cc, files |-> files, log |-> elog,
   metrics |-> metrics, configs |-> configs]

\* the inner and the outer except of a failed stage
stage_failed(service, c, cc, files, elog, metrics, configs, clock) ==
  Outcome(fallback([text |-> "{service} service failed: {e}", service |-> service]),
          c, cc, files,
          log_execution(log_execution(elog, service, "error", clock),
                        "gateway", "error", clock),
          metrics, configs)

\* self.aggregator.run(days, use_cache)
aggregator_stage(cfg, dir, c, clock, fault) ==
  IF fault = "aggregator" THEN [ret |-> Raised("Exception"), cache |-> c]
  ELSE run(dir, c, DaysToShow, cfg.use_cache, clock)

\* self.config_service.run(metrics, use_cache)
config_stage(cfg, metrics, cc, clock, fault) ==
  IF fault = "config_service" THEN [ret |-> Raised("Exception"), cache |-> cc]
  ELSE config_run(metrics, cc, cfg.use_cache, clock)

\* self.renderer.run(configs, metrics)
renderer_stage(configs, metrics, fault) ==
  IF fault = "renderer" THEN Raised("Exception")
  ELSE render_all_charts(configs, metrics)

\* step 4: the exports, the files and the status logged; a failure is not
\* critical
exporter_stage(cfg, metrics, files, clock, fault) ==
  IF ~cfg.exports_enabled
  THEN [ret |-> EmptyDict, files |-> files, status |-> "skipped"]
  ELSE IF fault = "exporter"
  THEN [ret |-> EmptyDict, files |-> files, status |-> "warning"]
  ELSE [ret |-> export_all(metrics, clock).ret,
        files |-> export_all(metrics, clock).files, status |-> "success"]

\* steps 3 and 4 and the result
after_config(cfg, agg, conf, rendered, exported, elog, clock) ==
  IF IsRaised(rendered)
  THEN stage_failed("renderer", agg.cache, conf.cache, exported.files, elog,
                    agg.ret, conf.ret, clock)
  ELSE Outcome([enabled |-> TRUE, has_data |-> TRUE,
                cdn_script |-> rendered.cdn_script,
                charts_section |-> rendered.charts_section,
                exports |-> exported.ret,
                metadata |->
                  [generated_at |-> clock, service |-> "ChartAPIGateway",
                   version |-> "1.1.0",
                   data_points |-> agg.ret.summary.total_data_points,
                   date_range |-> agg.ret.summary.date_range]],
               agg.cache, conf.cache, exported.files,
               log_execution(log_execution(elog, "renderer", "success", clock),
                             "exporter", exported.status, clock),
               agg.ret, conf.ret)

\* step 2 and what follows
after_no_data_check(cfg, agg, conf, files, elog, clock, fault) ==
  IF IsRaised(conf.ret)
  THEN stage_failed("config_service", agg.cache, conf.cache, files, elog,
                    agg.ret, NoResult, clock)
  ELSE after_config(cfg, agg, conf,
                    renderer_stage(conf.ret, agg.ret, fault),
                    IF fault = "renderer"
                    THEN [ret |-> EmptyDict, files |-> files, status |-> "none"]
                    ELSE exporter_stage(cfg, agg.ret, files, clock, fault),
                    log_execution(elog, "config_service", "success", clock), clock)

\* the check for data and what follows
after_aggregator(cfg, agg, cc, files, elog, clock, fault) ==
  IF IsRaised(agg.ret)
  THEN stage_failed("aggregator", agg.cache, cc, files, elog, NoResult, NoResult,
                    clock)
  ELSE IF no_data(agg.ret)
  THEN Outcome(NoDataResult, agg.cache, cc, files,
               log_execution(log_execution(elog, "aggregator", "success", clock),
                             "gateway", "warning", clock),
               agg.ret, NoResult)
  ELSE after_no_data_check(cfg, agg, config_stage(cfg, agg.ret, cc, clock, fault),
                           files,
                           log_execution(elog, "aggregator", "success", clock),
                           clock, fault)

\* ChartAPIGateway.generate_all_charts
generate_all_charts(cfg, dir, c, cc, files, elog, clock, fault) ==
  IF ~cfg.enabled
  THEN Outcome(DisabledResult, c, cc, files,
               log_execution(elog, "gateway", "disabled", clock),
               NoResult, NoResult)
  ELSE after_aggregator(cfg, aggregator_stage(cfg, dir, c, clock, fault), cc,
                        files, elog, clock, fault)

\* pipeline runs of one behaviour, at most
MaxPipelineRuns == 2

\* what monitor.py may have saved for one day: a snapshot, or the JSON
\* document null
ChartContents == {NoneData, SnapOf({"10.0.0.0/24"})}

\* the snapshot files of the history the pipeline reads, at most
MaxHistory == 2

\* the files of exports/charts
ChartFiles == {"csv", "json", "markdown", "index"}

\* the gateway is constructed from config/chart_settings.json over an empty
\* history, with no cache file
ChartsInit ==
  /\ op = "none"
  /\ oldData = NoneData
  /\ newData = NoneData
  /\ result = NoResult
  /\ dataDir = [d \in 1..MaxHistory |-> NoFile]
  /\ cache = NoCache
  /\ now = 0
  /\ days = DaysToShow
  /\ useCache = FALSE
  /\ log = <<>>
  /\ ipv4 = <<>>
  /\ ipv6 = <<>>
  /\ exports = [f \in ChartFiles |-> Missing]
  /\ configCache = NoCache
  /\ settings \in [enabled : BOOLEAN, use_cache : BOOLEAN, exports_enabled : BOOLEAN]
  /\ executionLog = <<>>

\* monitor.py saves the snapshot of the next day
AddSnapshot ==
  /\ \E d \in 1..MaxHistory :
       /\ dataDir[d] = NoFile
       /\ \A e \in 1..(d - 1) : dataDir[e] # NoFile
       /\ \E data \in ChartContents : dataDir' = save_data(dataDir, data, d)
  /\ op' = "save_data"
  /\ UNCHANGED <<oldData, newData, result, cache, now, days, useCache, log,
                 ipv4, ipv6, exports, configCache, settings, executionLog>>

\* cache/historical_metrics.json is deleted
DeleteMetricsCache ==
  /\ cache # NoCache
  /\ cache' = NoCache
  /\ op' = "delete"
  /\ UNCHANGED <<oldData, newData, result, dataDir, now, days, useCache, log,
                 ipv4, ipv6, exports, configCache, settings, executionLog>>

\* cache/chart_configs.json is deleted
DeleteConfigCache ==
  /\ configCache # NoCache
  /\ configCache' = NoCache
  /\ op' = "delete"
  /\ UNCHANGED <<oldData, newData, result, dataDir, cache, now, days, useCache,
                 log, ipv4, ipv6, exports, settings, executionLog>>

\* one call of generate_all_charts; log records the metrics and the configs
\* the call handed from stage to stage, and what it returned
GenerateAllCharts ==
  /\ Len(log) < MaxPipelineRuns
  /\ \E fault \in Faults :
       \E r \in {generate_all_charts(settings, dataDir, cache, configCache,
                                     exports, executionLog, now, fault)} :
           /\ op' = "generate_all_charts"
           /\ useCache' = settings.use_cache
           /\ result' = r.ret
           /\ cache' = r.cache
           /\ configCache' = r.configCache
           /\ exports' = r.files
           /\ executionLog' = r.log
           /\ log' = Append(log, [fault |-> fault, metrics |-> r.metrics,
                                  configs |-> r.configs, ret |-> r.ret,
                                  log_before |-> Len(executionLog)])
           /\ UNCHANGED <<oldData, newData, dataDir, now, days, ipv4, ipv6,
                          settings>>

ChartsNext ==
  AddSnapshot \/ DeleteMetricsCache \/ DeleteConfigCache \/ GenerateAllCharts

SpecCharts == ChartsInit /\ [][ChartsNext]_vars

(* ------------------------------ properties ----------------------------- *)

Range(seq) == {seq[i] : i \in DOMAIN seq}


\* the values under 'ipv4Prefix' and 'ipv6Prefix' in the entries of one
\* sub-document
FieldValues(doc) ==
  IF doc.kind = "dict" /\ doc.ptag = "list"
  THEN UNION {{doc.prefixes[i].ipv4Prefix, doc.prefixes[i].ipv6Prefix} \ {Absent} :
                i \in DOMAIN doc.prefixes}
  ELSE {}

\* the prefix set of a snapshot, read off its entries
AllValues(data) == FieldValues(data.cloud) \cup FieldValues(data.goog)

StrictlyAscending(seq) ==
  \A i, j \in DOMAIN seq : i < j => str_lt(seq[i], seq[j])

Returned == ~IsRaised(result)

\* C1: for two present snapshots compare_data returns
\* added = extract(new) \ extract(old) and removed = extract(old) \ extract(new)
\* as sets of CIDR strings; the two are disjoint, added lies in the current
\* set and removed in the previous set.
C1_SetDifference ==
  (op = "compare" /\ Truthy(oldData) /\ Truthy(newData)) =>
     /\ Returned
     /\ Range(result.added) = AllValues(newData) \ AllValues(oldData)
     /\ Range(result.removed) = AllValues(oldData) \ AllValues(newData)
     /\ Range(result.added) \cap Range(result.removed) = {}
     /\ Range(result.added) \subseteq AllValues(newData)
     /\ Range(result.removed) \subseteq AllValues(oldData)

C1_Witness ==
  /\ op = "compare"
  /\ AllValues(oldData) = {"10.0.0.0/24", "2001:db8::/32"}
  /\ AllValues(newData) = {"10.0.0.0/24", "10.0.1.0/24"}
  /\ result.added = <<"10.0.1.0/24">>
  /\ result.removed = <<"2001:db8::/32">>

\* C2: when the previous snapshot is absent compare_data returns empty added
\* and removed and a previous-count field that is 0, whatever the current
\* snapshot is.
C2_BootstrapPreviousCount ==
  (op = "compare" /\ ~Truthy(oldData)) =>
     /\ result.added = <<>>
     /\ result.removed = <<>>
     /\ "total_previous" \in DOMAIN result
     /\ result.total_previous = 0

\* C3: comparing a snapshot with itself yields empty added and removed and
\* previous count = current count = the size of its prefix set; the report's
\* diff of one file with itself is empty too.
C3_DiffIdempotence ==
  /\ (op = "compare" /\ Truthy(newData) /\ oldData = newData) =>
        /\ Returned
        /\ result.added = <<>>
        /\ result.removed = <<>>
        /\ result.total_previous = Cardinality(AllValues(newData))
        /\ result.total_current = Cardinality(AllValues(newData))
  /\ (op = "report" /\ oldData = newData) =>
        /\ Returned
        /\ result.added = <<>>
        /\ result.removed = <<>>

C3_Witness ==
  /\ op = "compare"
  /\ oldData = newData
  /\ Cardinality(AllValues(newData)) = 2
  /\ result.total_previous = 2
  /\ result.total_current = 2

\* C4: the added and removed lists of the differ are strictly ascending in
\* the lexicographic order of the CIDR strings (so without duplicates) and
\* hold exactly the set differences, whatever the order of the entries in
\* the snapshots; Day1 = {10.0.0.0/24}, Day2 = {10.0.0.0/24, 10.0.1.0/24,
\* 2001:db8::/32} gives added = [10.0.1.0/24, 2001:db8::/32], removed = [].
C4_SortedOutput ==
  ((op = "compare" /\ Truthy(oldData) /\ Truthy(newData)) \/ op = "report") =>
     /\ Returned
     /\ StrictlyAscending(result.added)
     /\ StrictlyAscending(result.removed)
     /\ Range(result.added) = AllValues(newData) \ AllValues(oldData)
     /\ Range(result.removed) = AllValues(oldData) \ AllValues(newData)
     /\ (/\ AllValues(oldData) = {"10.0.0.0/24"}
         /\ AllValues(newData) = {"10.0.0.0/24", "10.0.1.0/24", "2001:db8::/32"})
        => /\ result.added = <<"10.0.1.0/24", "2001:db8::/32">>
           /\ result.removed = <<>>

\* the example with the entries of Day2 listed in descending order
C4_Witness ==
  /\ op = "compare"
  /\ AllValues(oldData) = {"10.0.0.0/24"}
  /\ newData.cloud.ptag = "list"
  /\ Len(newData.cloud.prefixes) = 2
  /\ newData.cloud.prefixes[1].ipv6Prefix = "2001:db8::/32"
  /\ newData.cloud.prefixes[1].ipv4Prefix = "10.0.1.0/24"
  /\ newData.cloud.prefixes[2].ipv4Prefix = "10.0.0.0/24"
  /\ result.added = <<"10.0.1.0/24", "2001:db8::/32">>
  /\ result.removed = <<>>

\* C5: extract_prefixes returns exactly the set of the ipv4Prefix and
\* ipv6Prefix values of the entries of 'cloud' and 'goog', without raising:
\* a null sub-document, an absent prefixes list and an entry without fields
\* add nothing, a repeated CIDR appears once, an entry with both fields adds
\* both.
C5_ExtractExact ==
  (op \in {"extract", "monitor_extract"}) =>
     /\ result.err = NoErr
     /\ result.val = AllValues(newData)

\* an entry with both fields in 'cloud', one of them repeated in 'goog'
C5_Witness ==
  /\ op = "extract"
  /\ newData.cloud.ptag = "list"
  /\ newData.goog.ptag = "list"
  /\ Len(newData.cloud.prefixes) = 1
  /\ Len(newData.goog.prefixes) = 2
  /\ newData.cloud.prefixes[1] = [ipv4Prefix |-> "10.0.0.0/24", ipv6Prefix |-> "2001:db8::/32"]
  /\ newData.goog.prefixes[1] = [ipv4Prefix |-> "10.0.0.0/24", ipv6Prefix |-> Absent]
  /\ newData.goog.prefixes[2] = [ipv4Prefix |-> Absent, ipv6Prefix |-> Absent]
  /\ result.val = {"10.0.0.0/24", "2001:db8::/32"}

\* C6: an entry whose ipv4Prefix or ipv6Prefix value is not a string makes
\* extract_prefixes signal an error to its caller, and no returned prefix
\* set holds a value that is not a string.
C6_NoNonStringAdmitted ==
  (op \in {"extract", "monitor_extract"}) =>
     /\ (\E v \in AllValues(newData) : ~IsStr(v)) => result.err # NoErr
     /\ result.err = NoErr => \A v \in result.val : IsStr(v)

\* the set of file dates of the data directory
FileDates == {d \in Dates : dataDir[d].kind # "nofile"}

\* the min(n, k) most recent of the k files
MostRecent(n) == {d \in FileDates : Cardinality({e \in FileDates : e > d}) < n}

DatesAscending(seq) == \A i, j \in DOMAIN seq : i < j => seq[i] < seq[j]

Min(a, b) == IF a < b THEN a ELSE b

HasSeries == op = "run" /\ Returned

\* C7: for a positive window N and a history of k files, the timestamps of
\* the result are the dates of the min(N, k) most recent files, ascending.
C7_WindowIsSuffix ==
  (HasSeries /\ days > 0) =>
     /\ Range(result.timestamps) = MostRecent(days)
     /\ Len(result.timestamps) = Min(days, Cardinality(FileDates))
     /\ DatesAscending(result.timestamps)

\* C7 as amended: for a positive window N the aggregator selects the
\* min(N, k) most recent files and the timestamps of the result are the dates
\* of those of them that parse, ascending.
C7_WindowOfLoadable ==
  (HasSeries /\ days > 0) =>
     /\ Range(result.timestamps) = {d \in MostRecent(days) : dataDir[d].kind # "garbage"}
     /\ DatesAscending(result.timestamps)
     /\ (\A d \in MostRecent(days) : dataDir[d].kind # "garbage")
          => Len(result.timestamps) = Min(days, Cardinality(FileDates))

\* a window of 2 out of 3 files, one of the two unparseable
C7_Witness ==
  /\ HasSeries
  /\ days = 2
  /\ FileDates = {1, 2, 3}
  /\ dataDir[1].kind = "dict"
  /\ dataDir[2].kind = "garbage"
  /\ dataDir[3].kind = "dict"
  /\ result.timestamps = <<3>>

\* C8: a run with a window N <= 0 fails at once: it returns no series and
\* leaves the cache unwritten.
C8_InvalidWindowRejected ==
  (op = "run" /\ days <= 0) =>
     /\ IsRaised(result)
     /\ cache = NoCache

\* C9: daily_added and daily_removed are 0 at the first point of the series,
\* whatever lies before the window, and at every later point they count the
\* prefixes gained and lost against the preceding point of the series.
C9_DailyChanges ==
  HasSeries =>
     LET ts   == result.timestamps
         S(i) == AllValues(dataDir[ts[i]])
     IN  /\ Len(result.daily_added) = Len(ts)
         /\ Len(result.daily_removed) = Len(ts)
         /\ \A i \in DOMAIN ts :
              IF i = 1
              THEN result.daily_added[i] = 0 /\ result.daily_removed[i] = 0
              ELSE /\ result.daily_added[i] = Cardinality(S(i) \ S(i - 1))
                   /\ result.daily_removed[i] = Cardinality(S(i - 1) \ S(i))

\* a window of 2 out of 3 snapshots: the first point ignores the snapshot
\* before the window, the second counts against the first
C9_Witness ==
  /\ HasSeries
  /\ days = 2
  /\ result.timestamps = <<2, 3>>
  /\ AllValues(dataDir[1]) = {}
  /\ AllValues(dataDir[2]) = {"10.0.0.0/24", "2001:db8::/32"}
  /\ AllValues(dataDir[3]) = {"10.0.0.0/24", "10.0.1.0/24"}
  /\ dataDir[1].kind = "dict"
  /\ result.daily_added = <<0, 1>>
  /\ result.daily_removed = <<0, 1>>

\* no file of the data directory parses
EmptyHistory == \A d \in Dates : dataDir[d].kind \in {"nofile", "garbage"}

\* C10: aggregating an empty history (no file, or none that loads) raises
\* nothing and returns six empty sequences and a summary of zeros with null
\* date bounds.
C10_EmptyHistory ==
  (op = "run" /\ EmptyHistory) =>
     /\ Returned
     /\ result.timestamps = <<>>
     /\ result.total_ranges = <<>>
     /\ result.ipv4_counts = <<>>
     /\ result.ipv6_counts = <<>>
     /\ result.daily_added = <<>>
     /\ result.daily_removed = <<>>
     /\ result.summary.total_data_points = 0
     /\ result.summary.date_range = [start |-> NullDate, end |-> NullDate]
     /\ result.summary.current_total = 0
     /\ result.summary.current_ipv4 = 0
     /\ result.summary.current_ipv6 = 0
     /\ result.summary.total_growth = 0
     /\ result.summary.avg_daily_change = Zero

\* files exist and none of them loads
C10_Witness ==
  /\ op = "run"
  /\ days = 3
  /\ \A d \in {1, 2} : dataDir[d].kind = "garbage"
  /\ EmptyHistory
  /\ result.summary.total_data_points = 0
  /\ result.timestamps = <<>>

\* C11: the six sequences of a returned series have one common length, and
\* summary.total_data_points is that length.
C11_CommonLength ==
  HasSeries =>
     LET n == Len(result.timestamps)
     IN  /\ Len(result.total_ranges) = n
         /\ Len(result.ipv4_counts) = n
         /\ Len(result.ipv6_counts) = n
         /\ Len(result.daily_added) = n
         /\ Len(result.daily_removed) = n
         /\ result.summary.total_data_points = n

\* three points out of three snapshots
C11_Witness ==
  /\ HasSeries
  /\ Len(result.timestamps) = 3
  /\ Len(result.daily_removed) = 3
  /\ result.summary.total_data_points = 3

\* seq[1] + ... + seq[k]
RECURSIVE SumTo(_, _)
SumTo(seq, k) == IF k = 0 THEN 0 ELSE SumTo(seq, k - 1) + seq[k]

\* C12: total_growth is the last total range count minus the first for a
\* series of two points or more and 0 otherwise; avg_daily_change is the sum
\* of daily_added over the number of points (the first, 0 one included) and 0
\* for a series of no point, so no division by zero occurs.
C12_GrowthAndAverage ==
  HasSeries =>
     LET tr == result.total_ranges
         n  == Len(result.timestamps)
     IN  /\ result.summary.total_growth = (IF n >= 2 THEN tr[n] - tr[1] ELSE 0)
         /\ result.summary.avg_daily_change.den # 0
         /\ result.summary.avg_daily_change =
              (IF n = 0 THEN Zero ELSE Ratio(SumTo(result.daily_added, n), n))

\* three points: the count dips, then two prefixes are added
C12_Witness ==
  /\ HasSeries
  /\ result.total_ranges = <<2, 1, 3>>
  /\ result.daily_added = <<0, 0, 2>>
  /\ result.summary.total_growth = 1
  /\ result.summary.avg_daily_change = Ratio(2, 3)

\* the files of the window that are not well-formed snapshots
Malformed(W) == {d \in W : dataDir[d].kind # "dict"}

\* C14: when one snapshot of the window is malformed (a file that does not
\* parse, or one that parses to something else than the nested structure,
\* such as the document null) the run does not abort: it returns a series of
\* one point fewer, whose points are those of the other snapshots.
C14_GracefulDegradation ==
  (op = "run" /\ days > 0 /\ Cardinality(Malformed(MostRecent(days))) = 1) =>
     /\ Returned
     /\ Range(result.timestamps) = MostRecent(days) \ Malformed(MostRecent(days))
     /\ Len(result.timestamps) = Cardinality(MostRecent(days)) - 1
     /\ \A i \in DOMAIN result.timestamps :
          result.total_ranges[i] = Cardinality(AllValues(dataDir[result.timestamps[i]]))

\* the second of two recomputing runs that returned, over one windowed history
TwoRecomputations ==
  /\ Len(log) = 2
  /\ ~log[1].use_cache
  /\ ~log[2].use_cache
  /\ ~IsRaised(log[1].ret)
  /\ ~IsRaised(log[2].ret)
  /\ load_historical_data(dataDir, log[1].days) = load_historical_data(dataDir, log[2].days)

\* C13: two aggregation runs over the same windowed history return outputs
\* identical in every field, even at different wall-clock times.
C13_RunsIdentical ==
  TwoRecomputations => log[1].ret = log[2].ret

Unstamped(metrics) == [metrics EXCEPT !.metadata.generated_at = 0]

\* C13 as amended: the two outputs are identical in every field but
\* metadata.generated_at, which holds the time of each run.
C13_IdenticalButStamp ==
  TwoRecomputations =>
     /\ Unstamped(log[1].ret) = Unstamped(log[2].ret)
     /\ log[1].ret.metadata.generated_at = log[1].at
     /\ log[2].ret.metadata.generated_at = log[2].at

\* two runs of a two-point history, the clock read at 0 and at 1
C13_Witness ==
  /\ TwoRecomputations
  /\ log[1].at = 0
  /\ log[2].at = 1
  /\ log[1].ret.timestamps = <<1, 3>>
  /\ log[2].ret.timestamps = <<1, 3>>
  /\ log[1].ret # log[2].ret

\* the cache file after the i-th call
CacheAfter(i) == IF i < Len(log) THEN log[i + 1].cache_before ELSE cache

IsEmptySeries(r) ==
  /\ r.timestamps = <<>>
  /\ r.total_ranges = <<>>
  /\ r.ipv4_counts = <<>>
  /\ r.ipv6_counts = <<>>
  /\ r.daily_added = <<>>
  /\ r.daily_removed = <<>>
  /\ r.summary.total_data_points = 0

\* C15: run returns either the metrics recomputed from the history, which
\* it saves as the cache, or the saved cache content verbatim; with
\* use_cache and a cache file present it returns the saved content and
\* leaves the file as it is, without use_cache it recomputes.
C15_RecomputedOrSaved ==
  \A i \in DOMAIN log :
     LET c     == log[i]
         fresh == aggregate_all_data(dataDir, c.days, c.at)
     IN  /\ \/ c.ret = fresh /\ (~IsRaised(fresh) => CacheAfter(i) = fresh)
            \/ c.ret = c.cache_before
         /\ (c.use_cache /\ c.cache_before # NoCache) =>
               (c.ret = c.cache_before /\ CacheAfter(i) = c.cache_before)
         /\ ~c.use_cache => c.ret = fresh

\* C15 as amended: as above when the cache file parses; a cache file that
\* is present and does not parse is answered, under use_cache, by the empty
\* metrics stamped with the time of the call, and is left as it is.
C15_RecomputedSavedOrEmpty ==
  \A i \in DOMAIN log :
     LET c     == log[i]
         fresh == aggregate_all_data(dataDir, c.days, c.at)
     IN  IF c.use_cache /\ c.cache_before = GarbageCache
         THEN /\ IsEmptySeries(c.ret)
              /\ c.ret.metadata.generated_at = c.at
              /\ CacheAfter(i) = GarbageCache
         ELSE IF c.use_cache /\ c.cache_before # NoCache
         THEN /\ c.ret = c.cache_before
              /\ CacheAfter(i) = c.cache_before
         ELSE /\ c.ret = fresh
              /\ CacheAfter(i) = (IF IsRaised(fresh) THEN c.cache_before ELSE fresh)

\* a run of the last day at time 0, then a run of three days under use_cache
\* at time 1: the second returns what the first saved
C15_Witness ==
  /\ Len(log) = 2
  /\ log[1].days = 1
  /\ log[2].days = 3
  /\ log[2].use_cache
  /\ log[2].at = 1
  /\ \A d \in {1, 2, 3} : dataDir[d].kind = "dict"
  /\ ~IsRaised(log[1].ret)
  /\ log[1].ret.timestamps = <<3>>
  /\ log[1].ret.metadata.generated_at = 0
  /\ log[2].cache_before = log[1].ret
  /\ log[2].ret = log[1].ret
  /\ cache = log[1].ret

\* C17: in the Azure document the IPv4 rule at position i has priority
\* 100 + i and the IPv6 rule at position j has priority 2000 + j, and no
\* IPv4 rule has the priority of an IPv6 rule, whatever the lengths of the
\* two lists.
C17_PrioritiesDisjoint ==
  op = "azure" =>
     LET rules == result.securityRules
         n4    == Len(ipv4)
         n6    == Len(ipv6)
     IN  /\ Len(rules) = n4 + n6
         /\ \A i \in 0..(n4 - 1) :
              /\ rules[i + 1].properties.sourceAddressPrefix = ipv4[i + 1]
              /\ rules[i + 1].properties.priority = 100 + i
         /\ \A j \in 0..(n6 - 1) :
              /\ rules[n4 + j + 1].properties.sourceAddressPrefix = ipv6[j + 1]
              /\ rules[n4 + j + 1].properties.priority = 2000 + j
         /\ \A i \in 0..(n4 - 1), j \in 0..(n6 - 1) :
              rules[i + 1].properties.priority # rules[n4 + j + 1].properties.priority

\* the permit line of the i-th IPv4 prefix in a returned Cisco document
PermitLine(i) == result.lines[4 + i]

\* the decimal digits of an octet
Dec(n) ==
  IF n < 10 THEN <<48 + n>>
  ELSE IF n < 100 THEN <<48 + (n \div 10), 48 + (n % 10)>>
  ELSE <<48 + (n \div 100), 48 + ((n \div 10) % 10), 48 + (n % 10)>>

\* the k-th octet, from the most significant, of the complement of the
\* subnet mask of length p: of the 32 - p low bits that are set, those that
\* fall into it
ComplementOctet(p, k) ==
  LET below == 8 * (3 - k)
      ones  == IF 32 - p <= below THEN 0
               ELSE IF 32 - p >= below + 8 THEN 8
               ELSE 32 - p - below
  IN  2 ^ ones - 1

Dotted(p) ==
  Dec(ComplementOctet(p, 0)) \o <<46>> \o Dec(ComplementOctet(p, 1)) \o <<46>>
    \o Dec(ComplementOctet(p, 2)) \o <<46>> \o Dec(ComplementOctet(p, 3))

\* C18: for every prefix length p in 0..32 the wildcard mask of a permit
\* line is the bitwise complement of the subnet mask of length p, as four
\* decimal octets joined by dots, the most significant first: 0.0.0.0 for
\* 32, 0.0.0.255 for 24, 0.0.255.255 for 16 and 255.255.255.255 for 0.
C18_WildcardMask ==
  (op = "cisco" /\ Returned) =>
     \A i \in DOMAIN ipv4 : \A p \in 0..32 :
        ipv4[i] = Cidr(p) =>
           /\ PermitLine(i).network = Net
           /\ PermitLine(i).wildcard = Dotted(p)
           /\ p = 32 => PermitLine(i).wildcard = <<48, 46, 48, 46, 48, 46, 48>>
           /\ p = 24 => PermitLine(i).wildcard = <<48, 46, 48, 46, 48, 46, 50, 53, 53>>
           /\ p = 16 => PermitLine(i).wildcard = <<48, 46, 48, 46, 50, 53, 53, 46, 50, 53, 53>>
           /\ p = 0 => PermitLine(i).wildcard =
                         <<50, 53, 53, 46, 50, 53, 53, 46, 50, 53, 53, 46, 50, 53, 53>>

\* 10.0.0.0/19 and 10.0.0.0/24 give 0.0.31.255 and 0.0.0.255
C18_Witness ==
  /\ op = "cisco"
  /\ Returned
  /\ ipv4 = <<Cidr(19), Cidr(24)>>
  /\ PermitLine(1).wildcard = <<48, 46, 48, 46, 51, 49, 46, 50, 53, 53>>
  /\ PermitLine(2).wildcard = <<48, 46, 48, 46, 48, 46, 50, 53, 53>>

\* the prefix length written in a token of the form address/number
InRange(t) == \E p \in 0..32 : t = Cidr(p)

OutOfRange(t) == t \notin BadTokens /\ ~InRange(t)

\* C19: a prefix length outside 0..32 is rejected as InvalidPrefixLength: the
\* call fails and no permit line with a computed mask is emitted for it.
C19_PrefixLengthRejected ==
  (/\ op = "cisco"
   /\ \E i \in DOMAIN ipv4 : OutOfRange(ipv4[i])
   /\ \A j \in DOMAIN ipv4 : ipv4[j] \notin BadTokens) =>
     IsRaised(result)

\* C20: one IPv4 token that is not address/prefixlen fails its own line
\* only: the document is returned with the permit line of every other
\* prefix.
C20_MalformedIsolated ==
  (/\ op = "cisco"
   /\ \E i \in DOMAIN ipv4 : ipv4[i] \in BadTokens
   /\ \A j \in DOMAIN ipv4 : ipv4[j] \in BadTokens \/ InRange(ipv4[j])) =>
     /\ Returned
     /\ \A i \in DOMAIN ipv4 : \A p \in 0..32 :
          ipv4[i] = Cidr(p) =>
             \E k \in DOMAIN result.lines :
                /\ "wildcard" \in DOMAIN result.lines[k]
                /\ result.lines[k].network = Net
                /\ result.lines[k].wildcard = Dotted(p)

\* C23: at every point of a returned series the IPv4 count and the IPv6
\* count add up to the total count: the split by the colon is a partition of
\* the prefix set of the day.
C23_FamiliesPartition ==
  HasSeries =>
     \A i \in DOMAIN result.timestamps :
        LET S == AllValues(dataDir[result.timestamps[i]])
        IN  /\ result.ipv4_counts[i] + result.ipv6_counts[i] = result.total_ranges[i]
            /\ result.ipv4_counts[i] = Cardinality(S \cap V4Strings)
            /\ result.ipv6_counts[i] = Cardinality(S \cap V6Strings)

\* a day of two IPv4 prefixes and one IPv6 prefix
C23_Witness ==
  /\ HasSeries
  /\ result.timestamps # <<>>
  /\ result.ipv4_counts[1] = 2
  /\ result.ipv6_counts[1] = 1
  /\ result.total_ranges[1] = 3

\* C27: in every returned series the total count moves from one point to
\* the next by daily_added - daily_removed, hence total_growth is the sum of
\* daily_added minus the sum of daily_removed.
C27_DeltaIdentity ==
  HasSeries =>
     LET n == Len(result.timestamps)
     IN  /\ \A i \in 2..n :
              result.total_ranges[i] - result.total_ranges[i - 1]
                = result.daily_added[i] - result.daily_removed[i]
         /\ result.summary.total_growth
              = SumTo(result.daily_added, n) - SumTo(result.daily_removed, n)

\* three points: one prefix replaced by two, then one dropped
C27_Witness ==
  /\ HasSeries
  /\ result.total_ranges = <<1, 2, 1>>
  /\ result.daily_added = <<0, 2, 0>>
  /\ result.daily_removed = <<0, 1, 1>>
  /\ result.summary.total_growth = 0

\* C30: in every result of compare_data has_changes is true exactly when
\* added or removed is not empty, a result with has_changes holds
\* total_previous and total_current, and format_report reads no missing key
\* of it, the bootstrap result included.
C30_ReportReadsNoMissingKey ==
  (op = "compare" /\ Returned) =>
     /\ result.has_changes = (result.added # <<>> \/ result.removed # <<>>)
     /\ result.has_changes =>
          {"total_previous", "total_current"} \subseteq DOMAIN result
     /\ ~IsRaised(format_report(result, now, now))

\* the bootstrap: no previous snapshot, two prefixes fetched, a result
\* without total_previous
C30_Witness ==
  /\ op = "compare"
  /\ ~Truthy(oldData)
  /\ Cardinality(AllValues(newData)) = 2
  /\ "total_previous" \notin DOMAIN result
  /\ ~result.has_changes
  /\ format_report(result, now, now).current = 0

\* the data directory after the i-th run of the monitor
DirAfter(i) == IF i < Len(log) THEN log[i + 1].before ELSE dataDir

\* C24: a stored snapshot is immutable: no run of the monitor changes the
\* stored content of a date that has one; runs only add snapshots of new
\* dates.
C24_SnapshotsImmutable ==
  \A i \in DOMAIN log : \A d \in Dates :
     log[i].before[d].kind # "nofile" => DirAfter(i)[d] = log[i].before[d]

\* the run just made saved what it fetched
JustSaved ==
  /\ op = "monitor_run"
  /\ log # <<>>
  /\ Last(log).today = now
  /\ result # NotFetched

\* C25: when the snapshot of the day before is stored and the prefix set
\* fetched today differs from it, the comparison of the run has
\* has_changes = true and holds the prefixes added and removed against the
\* snapshot stored before the run.
C25_ChangesDetected ==
  (/\ JustSaved
   /\ now > 1
   /\ Last(log).before[now - 1].kind = "dict"
   /\ AllValues(Last(log).before[now - 1]) # AllValues(newData)) =>
     /\ Returned
     /\ result.comparison.has_changes
     /\ Range(result.comparison.added)
          = AllValues(newData) \ AllValues(Last(log).before[now - 1])
     /\ Range(result.comparison.removed)
          = AllValues(Last(log).before[now - 1]) \ AllValues(newData)

\* generate_all returned None after it loaded a snapshot
Generated_All == op = "generate_all" /\ result = NoResult /\ data_files(dataDir) # <<>>

\* the rows of the CSV file in the export directory
CsvRows == exports["export.csv"].lines

\* C21: the CSV projection is the header row type,prefix,description, then
\* one row 'IPv4,<prefix>,Google IP Range' per IPv4 prefix in input order,
\* then one row 'IPv6,<prefix>,Google IP Range' per IPv6 prefix in input
\* order: 1 + |ipv4| + |ipv6| rows, every IPv4 row before every IPv6 row.
C21_CsvRows ==
  Generated_All =>
    /\ Len(CsvRows) = 1 + Len(ipv4) + Len(ipv6)
    /\ CsvRows[1] = [text |-> "type,prefix,description"]
    /\ \A i \in 1..Len(ipv4) :
         CsvRows[1 + i] = [text |-> "IPv4,{ip},Google IP Range", ip |-> ipv4[i]]
    /\ \A j \in 1..Len(ipv6) :
         CsvRows[1 + Len(ipv4) + j] =
           [text |-> "IPv6,{ip},Google IP Range", ip |-> ipv6[j]]
    /\ \A m, n \in 2..Len(CsvRows) :
         (CsvRows[m].text = "IPv4,{ip},Google IP Range"
            /\ CsvRows[n].text = "IPv6,{ip},Google IP Range") => m < n

C21_Witness == Generated_All /\ Len(ipv4) >= 2 /\ Len(ipv6) >= 1

\* the prefix set of the latest snapshot, as the aggregator collects it
LatestPrefixSet ==
  appended(load_latest_data(dataDir).cloud, "ipv4Prefix")
  \cup appended(load_latest_data(dataDir).goog, "ipv4Prefix")
  \cup appended(load_latest_data(dataDir).cloud, "ipv6Prefix")
  \cup appended(load_latest_data(dataDir).goog, "ipv6Prefix")

\* C22: the lists the firewall generator extracts are partitioned by literal
\* syntax: no element of the IPv4 list holds a colon, every element of the
\* IPv6 list holds one (no IPv6 literal reaches the wildcard conversion),
\* and the lists equal separate_ipv4_ipv6 of the snapshot's prefix set.
C22_PartitionBySyntax ==
  op = "generate_all" =>
    /\ \A i \in DOMAIN ipv4 : ~has_colon(ipv4[i])
    /\ \A j \in DOMAIN ipv6 : has_colon(ipv6[j])
    /\ [ipv4 |-> ipv4, ipv6 |-> ipv6] = separate_ipv4_ipv6(LatestPrefixSet)

\* the file of format f holds the projection of the latest snapshot
Fresh(f) == exports[f] = generator(f, ipv4, ipv6, now)

\* C26: the nine formats are independent: a format whose projection succeeds
\* is written whatever happens to the others, and a call never leaves some
\* formats written from the new snapshot and the others missing or stale.
C26_FormatsIndependent ==
  (op = "generate_all" /\ data_files(dataDir) # <<>>) =>
    /\ \A i \in DOMAIN formats :
         ~IsRaised(generator(formats[i], ipv4, ipv6, now)) => Fresh(formats[i])
    /\ ~(\E i, j \in DOMAIN formats : Fresh(formats[i]) /\ ~Fresh(formats[j]))

\* the entries the call of generate_all_charts just made wrote to the
\* execution log
LastEntries == SubSeq(executionLog, Last(log).log_before + 1, Len(executionLog))

Stages == <<"aggregator", "config_service", "renderer", "exporter">>

\* stage k was run by the last call: it logged success, error or warning
StageRun(k) ==
  \E i \in DOMAIN LastEntries :
    LastEntries[i].service = Stages[k] /\ LastEntries[i].status # "skipped"

\* stage k failed in the last call
StageFailed(k) ==
  \E i \in DOMAIN LastEntries :
    LastEntries[i].service = Stages[k] /\ LastEntries[i].status \in {"error", "warning"}

\* C28: generate_all_charts always returns a result holding enabled,
\* cdn_script, charts_section and exports; a failed aggregator, config or
\* renderer stage gives the fallback (has_data false, an error text) and no
\* later stage runs; a failed export stage alone gives has_data true with
\* empty exports; zero data points give has_data false without the config,
\* renderer and export stages; a disabled gateway runs no stage.
C28_GracefulResults ==
  op = "generate_all_charts" =>
    /\ {"enabled", "cdn_script", "charts_section", "exports"} \subseteq DOMAIN result
    /\ \A k \in 1..3 :
         StageFailed(k) =>
           /\ result.has_data = FALSE
           /\ "error" \in DOMAIN result
           /\ \A later \in (k + 1)..4 : ~StageRun(later)
    /\ (StageFailed(4) /\ \A k \in 1..3 : ~StageFailed(k)) =>
         (result.has_data = TRUE /\ DOMAIN result.exports = {})
    /\ (Last(log).metrics # NoResult /\ Last(log).metrics.summary.total_data_points = 0) =>
         (result.has_data = FALSE /\ \A k \in 2..4 : ~StageRun(k))
    /\ ~settings.enabled => (result.enabled = FALSE /\ \A k \in 1..4 : ~StageRun(k))

\* a call whose renderer stage failed, then a call whose export stage failed
C28_Witness ==
  /\ op = "generate_all_charts"
  /\ Len(log) = 2
  /\ log[1].fault = "renderer" /\ "error" \in DOMAIN log[1].ret
  /\ StageFailed(4)
  /\ result.has_data = TRUE

\* C29: in every result with has_data = true the rendered chart
\* configurations are the ones generated from the metrics whose summary and
\* data_points the result reports, whatever snapshot additions, cache
\* deletions and pipeline runs came before.
C29_CacheCoherence ==
  \A i \in DOMAIN log :
    ("has_data" \in DOMAIN log[i].ret /\ log[i].ret.has_data) =>
      /\ log[i].ret.metadata.data_points = log[i].metrics.summary.total_data_points
      /\ log[i].ret.charts_section.line_chart =
           generate_all_configs(log[i].metrics, now).line_chart
      /\ log[i].ret.charts_section.bar_chart =
           generate_all_configs(log[i].metrics, now).bar_chart
      /\ log[i].ret.charts_section.pie_chart =
           generate_all_configs(log[i].metrics, now).pie_chart

====
